---------------------------- MODULE Spec2Model ----------------------------
(***************************************************************************)
(* ESP32 HomeKit fan controller (esp32_homekit_fan/main).                  *)
(*                                                                         *)
(* Three producers (HomeKit write callback, two button interrupts, the IR  *)
(* remote decoder task) put Fan_event_t records on g_Fan_event_queue; the  *)
(* Lasko_event_handler task takes them off one at a time, drives the       *)
(* relays and LEDs and keeps g_Fan_state.                                  *)
(***************************************************************************)
EXTENDS Integers, Sequences, FiniteSets, TLC

(***************************************************************************)
(* Program constants                                                       *)
(***************************************************************************)
GPIO_LOW == 0
GPIO_HIGH == 1

SOURCE_HOMEKIT == 0
SOURCE_REMOTE == 1
SOURCE_BUTTON == 2

ID_POWER == 0
ID_OSCILLATE == 1
ID_TIME == 2
ID_SPEED == 3
ID_TEMPERATURE == 4

SPEED_OFF == 0
SPEED_1 == 1
SPEED_2 == 2
SPEED_3 == 3
SPEED_4 == 4
NUM_SPEED == 5

\* relay.c: index of each relay in relays[]
NUM_SPEED_RELAY == 4
NUM_TOTAL_RELAY == 5
OSC_RELAY == 4

\* led.c: index of each LED in leds[]
NUM_SPEED_LED == 4
NUM_TOTAL_LED == 5
BUILTIN_LED == 4

\* main.c: xQueueCreate(10, sizeof(Fan_event_t))
QUEUE_LENGTH == 10

\* button.c
MIN_TIME_BETWEEN_PRESS == 250000

\* homekit.c, remote.c: the ticks xQueueSend waits for room
HOMEKIT_SEND_TICKS == 10
REMOTE_SEND_TICKS == 10

\* remote.c
IR_CODE_POWER == 319
IR_CODE_OSCILLATE == 315
IR_CODE_SPEED == 317
IR_CODE_TIME == 318
IR_CODE_TEMPERATURE == 303
NUM_SYMBOL_EXPECTED == 11
RMT_MAX_MEM_SYMBOLS == 48
DURATION_ERROR_MARGIN == 200
DURATION_SHORT == 400
DURATION_LONG == 1200

\* 2^16: unsigned int / size_t / uint32_t on the target are 2^16 * 2^16 wide
HALF_WIDTH == 65536

(***************************************************************************)
(* Bounds of the model                                                     *)
(***************************************************************************)
\* the environment issues a command only while fewer than this many are
\* queued or being handled
MaxPending == 1
\* latest clock reading (microseconds) in the controller specification
MaxTime == 250000
\* presses of the power button in the power button specification
MaxPresses == 6
\* frames given to the remote task in the queue specification
MaxFrames == 1
\* the time, in microseconds, up to which the buttons are pressed in the
\* button specification
MaxButtonTime == 625000
\* commands the queue accepts in the specification of the loop
MaxSent == 3

(***************************************************************************)
(* State                                                                   *)
(***************************************************************************)
VARIABLES
    g_Fan_state,        \* main.c: [on, oscillate, speed]
    g_Led_enable,       \* led.c
    relay_level,        \* GPIO level of relays[0..4] (active low)
    led_level,          \* GPIO level of leds[0..4]   (active high)
    g_Fan_event_queue,  \* FreeRTOS queue of Fan_event_t
    eh_pc,              \* Lasko_event_handler: "receive" | "handle"
    eh_event,           \* the event it took off the queue
    eh_gpio,            \* relay gpio_set_level calls the handler has still to make
    main_pc,            \* app_main: the call it makes next, "done" once it returned
    on_char,            \* HAP characteristic values
    oscillate_char,
    speed_char,
    hk_writes,          \* write_data[i..] while the callback is blocked in xQueueSend
    rm_send,            \* events the remote task is blocked sending in xQueueSend
    hk_ticks,           \* ticks the callback has been blocked in xQueueSend
    rm_ticks,           \* ticks the remote task has been blocked in xQueueSend
    time_us,            \* the clock gettimeofday reads
    prev_time_us,       \* button.c
    edges,              \* observer: log of button edges
    trace,              \* observer: log of handled commands
    rx_log,             \* observer: last frame given to the decoder and what it emitted
    shadow,             \* observer: the events accepted by the queue and not yet taken off
    attempt,            \* observer: how the last attempt to send ended
    frames,             \* observer: number of frames the remote task was given
    last,               \* observer: the last command handled and what its handler did
    sent,               \* observer: the events the queue accepted, in order
    hk_log              \* observer: the last writes given to the callback and what it queued

fanVars == <<g_Fan_state, g_Led_enable, relay_level, led_level>>
\* the tasks of main.c: the event handler and app_main
ehVars == <<eh_pc, eh_event, eh_gpio, main_pc>>
hapVars == <<on_char, oscillate_char, speed_char>>
sendVars == <<hk_writes, rm_send, hk_ticks, rm_ticks>>
btnVars == <<time_us, prev_time_us>>
obsVars == <<edges, trace, rx_log, shadow, attempt, frames, last, sent, hk_log>>
vars == <<fanVars, g_Fan_event_queue, ehVars, hapVars, sendVars, btnVars, obsVars>>

NoEvent == [source |-> -1, id |-> -1, arg |-> 0]

Event(s, i, a) == [source |-> s, id |-> i, arg |-> a]

Bool2Int(b) == IF b THEN 1 ELSE 0

(***************************************************************************)
(* relay.c                                                                 *)
(***************************************************************************)
\* Relay_write_speed without the loop that disables all speed relays
Relay_write_speed_noclear(speed) ==
    IF g_Fan_state.speed = speed /\ g_Fan_state.on
    THEN << >>
    ELSE IF speed \in SPEED_1..SPEED_4
         THEN << <<speed - 1, GPIO_LOW>> >>
         ELSE << >>

\* Relay_write_speed returning early on the speed alone, whether on or off
Relay_write_speed_anyon(speed) ==
    IF g_Fan_state.speed = speed
    THEN << >>
    ELSE [i \in 1..NUM_SPEED_RELAY |-> <<i - 1, GPIO_HIGH>>]
         \o (IF speed \in SPEED_1..SPEED_4
             THEN << <<speed - 1, GPIO_LOW>> >>
             ELSE << >>)

\* Relay_write_speed taking the speed HomeKit shows for the current speed
Relay_write_speed_char(speed) ==
    IF speed_char = 25 * speed /\ g_Fan_state.on
    THEN << >>
    ELSE [i \in 1..NUM_SPEED_RELAY |-> <<i - 1, GPIO_HIGH>>]
         \o (IF speed \in SPEED_1..SPEED_4
             THEN << <<speed - 1, GPIO_LOW>> >>
             ELSE << >>)

\* the gpio_set_level calls (<<relay index, level>>) of Relay_write_speed
Relay_write_speed(speed) ==
    IF g_Fan_state.speed = speed /\ g_Fan_state.on
    THEN << >>
    ELSE [i \in 1..NUM_SPEED_RELAY |-> <<i - 1, GPIO_HIGH>>]
         \o (IF speed \in SPEED_1..SPEED_4
             THEN << <<speed - 1, GPIO_LOW>> >>
             ELSE << >>)

\* Relay_write_oscillate driving the relay as if it were active high
Relay_write_oscillate_high(oscillate) ==
    << <<OSC_RELAY, IF oscillate THEN GPIO_HIGH ELSE GPIO_LOW>> >>

Relay_write_oscillate(oscillate) ==
    << <<OSC_RELAY, IF oscillate THEN GPIO_LOW ELSE GPIO_HIGH>> >>

Relay_init == [i \in 0..(NUM_TOTAL_RELAY - 1) |-> GPIO_HIGH]

(***************************************************************************)
(* led.c                                                                   *)
(***************************************************************************)
Led_clear_none(leds) == leds

\* the LED levels after the loop that clears the speed LEDs
Led_clear(leds) ==
    [i \in 0..(NUM_TOTAL_LED - 1) |->
        IF i < NUM_SPEED_LED THEN GPIO_LOW ELSE leds[i]]

\* Led_write_enable(enable): the LED levels it leaves
Led_write_enable(leds, enable) ==
    IF ~enable THEN Led_clear(leds) ELSE leds

\* Led_write_speed without the test of g_Led_enable
Led_write_speed_noflag(leds, en, speed) ==
    IF speed \in SPEED_1..SPEED_4
    THEN [Led_clear(leds) EXCEPT ![speed - 1] = GPIO_HIGH]
    ELSE Led_clear(leds)

\* Led_write_speed(speed) under the enable flag en: the LED levels it leaves
Led_write_speed(leds, en, speed) ==
    IF ~en
    THEN leds
    ELSE IF speed \in SPEED_1..SPEED_4
         THEN [Led_clear(leds) EXCEPT ![speed - 1] = GPIO_HIGH]
         ELSE Led_clear(leds)

\* the gpio_set_level calls (<<LED index, level>>) of the loop that clears
\* the speed LEDs
Led_clear_gpio == [i \in 1..NUM_SPEED_LED |-> <<i - 1, GPIO_LOW>>]

\* the gpio_set_level calls of Led_write_enable(enable)
Led_write_enable_gpio(enable) ==
    IF ~enable THEN Led_clear_gpio ELSE << >>

\* the gpio_set_level calls of Led_write_speed(speed) under the flag en
Led_write_speed_gpio(en, speed) ==
    IF ~en
    THEN << >>
    ELSE Led_clear_gpio
         \o (IF speed \in SPEED_1..SPEED_4
             THEN << <<speed - 1, GPIO_HIGH>> >>
             ELSE << >>)

Led_write_builtin_gpio(state) ==
    << <<BUILTIN_LED, IF state THEN GPIO_HIGH ELSE GPIO_LOW>> >>

Led_write_builtin(leds, state) ==
    [leds EXCEPT ![BUILTIN_LED] = IF state THEN GPIO_HIGH ELSE GPIO_LOW]

Led_init == [i \in 0..(NUM_TOTAL_LED - 1) |-> GPIO_LOW]

(***************************************************************************)
(* event_handlers.c                                                        *)
(* Each handler is given as the record of what it does to the state it is  *)
(* called in: gpio = its relay gpio_set_level calls in order, state = the  *)
(* g_Fan_state it leaves, led_enable = the g_Led_enable it leaves,         *)
(* update_char = whether it calls HomeKit_update_char.                     *)
(***************************************************************************)
ArgBool(event) == event.arg # 0

\* handle_homekit never taking a power event for redundant
HomeKitPowerRedundant_never(event) == FALSE

\* the test of handle_homekit (ID_POWER) for a redundant power event
HomeKitPowerRedundant(event) == g_Fan_state.on = ArgBool(event)

HomeKitOscillateNow_always == TRUE

\* the test of handle_homekit (ID_OSCILLATE) for applying the state at once
HomeKitOscillateNow == g_Fan_state.on

HomeKitSpeedOff_never(event) == FALSE

\* the test of handle_homekit (ID_SPEED) for a speed event that turns off
HomeKitSpeedOff(event) == event.arg = SPEED_OFF

handle_homekit(event) ==
    CASE event.id = ID_POWER ->
            IF HomeKitPowerRedundant(event)
            THEN [gpio |-> << >>, state |-> g_Fan_state,
                  led_enable |-> g_Led_enable, update_char |-> FALSE]
            ELSE [gpio |-> Relay_write_speed(IF ArgBool(event)
                                             THEN g_Fan_state.speed
                                             ELSE SPEED_OFF)
                           \o Relay_write_oscillate(IF ArgBool(event)
                                                    THEN g_Fan_state.oscillate
                                                    ELSE FALSE),
                  state |-> [g_Fan_state EXCEPT !.on = ArgBool(event)],
                  led_enable |-> g_Led_enable, update_char |-> FALSE]
      [] event.id = ID_OSCILLATE ->
            [gpio |-> IF HomeKitOscillateNow
                      THEN Relay_write_oscillate(ArgBool(event))
                      ELSE << >>,
             state |-> [g_Fan_state EXCEPT !.oscillate = ArgBool(event)],
             led_enable |-> g_Led_enable, update_char |-> FALSE]
      [] event.id = ID_SPEED ->
            IF HomeKitSpeedOff(event)
            THEN [gpio |-> << >>, state |-> g_Fan_state,
                  led_enable |-> g_Led_enable, update_char |-> FALSE]
            ELSE [gpio |-> IF g_Fan_state.on
                           THEN Relay_write_speed(event.arg)
                           ELSE << >>,
                  state |-> [g_Fan_state EXCEPT !.speed = event.arg],
                  led_enable |-> g_Led_enable, update_char |-> FALSE]
      [] OTHER ->
            [gpio |-> << >>, state |-> g_Fan_state,
             led_enable |-> g_Led_enable, update_char |-> FALSE]

\* ((a - b) mod 2^32) % m for unsigned a, b below 2^31
UnsignedSubMod(a, b, m) ==
    IF a >= b
    THEN (a - b) % m
    ELSE ((((HALF_WIDTH % m) * (HALF_WIDTH % m)) % m) + ((a - b) % m)) % m

\* next_speed of handle_button without the + !g_Fan_state.on
ButtonNextSpeed_nooff(state) ==
    UnsignedSubMod(state.speed, 1, NUM_SPEED)

\* next_speed of handle_button: enum State_speed is an unsigned int, so
\* (speed - 1) wraps before the % NUM_SPEED
ButtonNextSpeed(state) ==
    UnsignedSubMod(state.speed, 1, NUM_SPEED) + Bool2Int(~state.on)

handle_button(event) ==
    CASE event.id = ID_POWER ->
            LET next_speed == ButtonNextSpeed(g_Fan_state)
            IN  [gpio |-> Relay_write_speed(next_speed)
                          \o Relay_write_oscillate(IF next_speed # SPEED_OFF
                                                   THEN g_Fan_state.oscillate
                                                   ELSE FALSE),
                 state |-> [g_Fan_state EXCEPT
                               !.speed = IF next_speed # SPEED_OFF
                                         THEN next_speed ELSE SPEED_4,
                               !.on = (next_speed # SPEED_OFF)],
                 led_enable |-> g_Led_enable, update_char |-> TRUE]
      [] event.id = ID_OSCILLATE ->
            [gpio |-> IF g_Fan_state.on
                      THEN Relay_write_oscillate(~g_Fan_state.oscillate)
                      ELSE << >>,
             state |-> [g_Fan_state EXCEPT !.oscillate = ~g_Fan_state.oscillate],
             led_enable |-> g_Led_enable, update_char |-> TRUE]
      [] OTHER ->
            [gpio |-> << >>, state |-> g_Fan_state,
             led_enable |-> g_Led_enable, update_char |-> TRUE]

\* next_speed of handle_remote without the wraparound
RemoteNextSpeed_nowrap(state) ==
    state.speed - 1

\* next_speed of handle_remote (ID_SPEED), computed in int
RemoteNextSpeed(state) ==
    ((((state.speed - 1) - 1) + SPEED_4) % SPEED_4) + 1

RemotePowerOscillate_off == FALSE

\* the oscillation handle_remote (ID_POWER) writes
RemotePowerOscillate == IF g_Fan_state.on THEN FALSE ELSE g_Fan_state.oscillate

RemoteOscillateNow_always == TRUE

\* the test of handle_remote (ID_OSCILLATE) for applying the state at once
RemoteOscillateNow == g_Fan_state.on

RemoteSpeedRefused_never == FALSE

\* the test of handle_remote (ID_SPEED) for a fan that is off
RemoteSpeedRefused == ~g_Fan_state.on

RemoteLedEnable_off == FALSE

\* the argument of Led_write_enable in handle_remote (ID_TIME, ID_TEMPERATURE)
RemoteLedEnable == ~g_Led_enable

handle_remote(event) ==
    CASE event.id = ID_POWER ->
            [gpio |-> Relay_write_speed(IF g_Fan_state.on
                                        THEN SPEED_OFF
                                        ELSE g_Fan_state.speed)
                      \o Relay_write_oscillate(RemotePowerOscillate),
             state |-> [g_Fan_state EXCEPT !.on = ~g_Fan_state.on],
             led_enable |-> g_Led_enable, update_char |-> TRUE]
      [] event.id = ID_OSCILLATE ->
            [gpio |-> IF RemoteOscillateNow
                      THEN Relay_write_oscillate(~g_Fan_state.oscillate)
                      ELSE << >>,
             state |-> [g_Fan_state EXCEPT !.oscillate = ~g_Fan_state.oscillate],
             led_enable |-> g_Led_enable, update_char |-> TRUE]
      [] event.id = ID_SPEED ->
            IF RemoteSpeedRefused
            THEN [gpio |-> << >>, state |-> g_Fan_state,
                  led_enable |-> g_Led_enable, update_char |-> TRUE]
            ELSE LET next_speed == RemoteNextSpeed(g_Fan_state)
                 IN  [gpio |-> Relay_write_speed(next_speed),
                      state |-> [g_Fan_state EXCEPT !.speed = next_speed],
                      led_enable |-> g_Led_enable, update_char |-> TRUE]
      [] event.id \in {ID_TIME, ID_TEMPERATURE} ->
            [gpio |-> << >>, state |-> g_Fan_state,
             led_enable |-> RemoteLedEnable, update_char |-> TRUE]
      [] OTHER ->
            [gpio |-> << >>, state |-> g_Fan_state,
             led_enable |-> g_Led_enable, update_char |-> TRUE]

\* the switch of Lasko_event_handler with handle_remote as its default
Dispatch_remote(event) ==
    CASE event.source = SOURCE_HOMEKIT -> handle_homekit(event)
      [] event.source = SOURCE_BUTTON -> handle_button(event)
      [] OTHER -> handle_remote(event)

\* the switch on event.source of Lasko_event_handler
Dispatch(event) ==
    CASE event.source = SOURCE_HOMEKIT -> handle_homekit(event)
      [] event.source = SOURCE_BUTTON -> handle_button(event)
      [] event.source = SOURCE_REMOTE -> handle_remote(event)
      [] OTHER -> [gpio |-> << >>, state |-> g_Fan_state,
                   led_enable |-> g_Led_enable, update_char |-> FALSE]

(***************************************************************************)
(* FreeRTOS queue                                                          *)
(***************************************************************************)
QueueFull(queue) == Len(queue) >= QUEUE_LENGTH

xQueueSendFromISR_front(queue, event) ==
    IF QueueFull(queue) THEN queue ELSE <<event>> \o queue

\* xQueueSendFromISR: never blocks, errQUEUE_FULL when there is no room
xQueueSendFromISR(queue, event) ==
    IF QueueFull(queue) THEN queue ELSE Append(queue, event)

(***************************************************************************)
(* main.c: Lasko_event_handler                                             *)
(***************************************************************************)
\* xQueueReceive taking the newest event instead of the oldest
EH_Receive_newest ==
    /\ eh_pc = "receive"
    /\ g_Fan_event_queue # << >>
    /\ eh_event' = g_Fan_event_queue[Len(g_Fan_event_queue)]
    /\ g_Fan_event_queue' = SubSeq(g_Fan_event_queue, 1, Len(g_Fan_event_queue) - 1)
    /\ led_level' = Led_write_builtin(led_level, TRUE)
    /\ eh_gpio' = Dispatch(g_Fan_event_queue[Len(g_Fan_event_queue)]).gpio
    /\ eh_pc' = "handle"
    /\ UNCHANGED <<g_Fan_state, g_Led_enable, relay_level>>
    /\ UNCHANGED <<main_pc, hapVars, sendVars, btnVars>>

\* xQueueReceive returned an event: Led_write_builtin(true), enter the handler
EH_Receive ==
    /\ eh_pc = "receive"
    /\ g_Fan_event_queue # << >>
    /\ eh_event' = Head(g_Fan_event_queue)
    /\ g_Fan_event_queue' = Tail(g_Fan_event_queue)
    /\ led_level' = Led_write_builtin(led_level, TRUE)
    /\ eh_gpio' = Dispatch(Head(g_Fan_event_queue)).gpio
    /\ eh_pc' = "handle"
    /\ UNCHANGED <<g_Fan_state, g_Led_enable, relay_level>>
    /\ UNCHANGED <<main_pc, hapVars, sendVars, btnVars>>

\* one gpio_set_level call of Relay_write_speed / Relay_write_oscillate
EH_Gpio ==
    /\ eh_pc = "handle"
    /\ eh_gpio # << >>
    /\ relay_level' = [relay_level EXCEPT ![Head(eh_gpio)[1]] = Head(eh_gpio)[2]]
    /\ eh_gpio' = Tail(eh_gpio)
    /\ UNCHANGED <<g_Fan_state, g_Led_enable, led_level, eh_pc, eh_event>>
    /\ UNCHANGED <<main_pc, g_Fan_event_queue, hapVars, sendVars, btnVars>>

\* the value HomeKit_update_char gives speed_char
SpeedCharOf(state) == 25 * state.speed

\* HomeKit_update_char called before the handler has assigned g_Fan_state
HomeKit_update_char_before(state) ==
    [on |-> Bool2Int(g_Fan_state.on),
     oscillate |-> Bool2Int(g_Fan_state.oscillate),
     speed |-> SpeedCharOf(g_Fan_state)]

\* the values HomeKit_update_char gives the three characteristics when
\* g_Fan_state is state
HomeKit_update_char(state) ==
    [on |-> Bool2Int(state.on),
     oscillate |-> Bool2Int(state.oscillate),
     speed |-> SpeedCharOf(state)]

\* the calls of HomeKit_update_char of one pass of the loop on the event,
\* each as the values it gives
HandlerPublish(event) ==
    LET r == Dispatch(event)
    IN  IF r.update_char THEN <<HomeKit_update_char(r.state)>> ELSE << >>

\* the LED levels after Led_write_enable, if the handler calls it, and
\* Led_write_speed of the loop
HandlerLeds(event) ==
    LET r == Dispatch(event)
        leds1 == IF r.led_enable # g_Led_enable
                 THEN Led_write_enable(led_level, r.led_enable)
                 ELSE led_level
    IN  Led_write_speed(leds1, r.led_enable,
                        IF r.state.on THEN r.state.speed ELSE SPEED_OFF)

\* the handler after its relay writes: the g_Fan_state update,
\* Led_write_enable, HomeKit_update_char, then Led_write_speed and
\* Led_write_builtin(false) of the loop
HandlerReturn(event) ==
    /\ LET r == Dispatch(event)
           leds2 == HandlerLeds(event)
       IN  /\ g_Fan_state' = r.state
           /\ g_Led_enable' = r.led_enable
           /\ led_level' = Led_write_builtin(leds2, FALSE)
           /\ IF r.update_char
              THEN /\ on_char' = HomeKit_update_char(r.state).on
                   /\ oscillate_char' = HomeKit_update_char(r.state).oscillate
                   /\ speed_char' = HomeKit_update_char(r.state).speed
              ELSE UNCHANGED <<on_char, oscillate_char, speed_char>>
    /\ UNCHANGED <<sendVars, btnVars>>

\* the LED gpio_set_level calls of one pass of the loop on the event, in
\* order: Led_write_builtin(true), Led_write_enable if the handler calls it,
\* Led_write_speed, Led_write_builtin(false)
HandlerLedGpio(event) ==
    LET r == Dispatch(event)
    IN  Led_write_builtin_gpio(TRUE)
        \o (IF r.led_enable # g_Led_enable
            THEN Led_write_enable_gpio(r.led_enable)
            ELSE << >>)
        \o Led_write_speed_gpio(r.led_enable,
                                IF r.state.on THEN r.state.speed ELSE SPEED_OFF)
        \o Led_write_builtin_gpio(FALSE)

EH_Return ==
    /\ eh_pc = "handle"
    /\ eh_gpio = << >>
    /\ HandlerReturn(eh_event)
    /\ eh_pc' = "receive"
    /\ eh_event' = NoEvent
    /\ UNCHANGED <<relay_level, eh_gpio, main_pc, g_Fan_event_queue>>

\* the relay levels after the gpio_set_level calls of gpio, in order
RECURSIVE GpioLevels(_, _)
GpioLevels(relays, gpio) ==
    IF gpio = << >>
    THEN relays
    ELSE GpioLevels([relays EXCEPT ![Head(gpio)[1]] = Head(gpio)[2]], Tail(gpio))

\* one pass of the loop as a single step: xQueueReceive, the handler with
\* all its relay writes, Led_write_speed
Lasko_event_handler ==
    /\ eh_pc = "receive"
    /\ g_Fan_event_queue # << >>
    /\ g_Fan_event_queue' = Tail(g_Fan_event_queue)
    /\ relay_level' = GpioLevels(relay_level, Dispatch(Head(g_Fan_event_queue)).gpio)
    /\ HandlerReturn(Head(g_Fan_event_queue))
    /\ UNCHANGED ehVars

(***************************************************************************)
(* button.c                                                                *)
(***************************************************************************)
\* time passes
Tick(d) ==
    /\ time_us' = time_us + d
    /\ UNCHANGED <<fanVars, g_Fan_event_queue, ehVars, hapVars, sendVars, prev_time_us>>

\* the interrupt applying the press to g_Fan_state itself
ButtonISR_direct(id) ==
    /\ IF time_us - prev_time_us < MIN_TIME_BETWEEN_PRESS
       THEN UNCHANGED <<g_Fan_state, prev_time_us>>
       ELSE /\ g_Fan_state' = IF id = ID_OSCILLATE
                              THEN [g_Fan_state EXCEPT !.oscillate = ~g_Fan_state.oscillate]
                              ELSE [g_Fan_state EXCEPT !.on = ~g_Fan_state.on]
            /\ prev_time_us' = time_us
    /\ UNCHANGED <<g_Led_enable, relay_level, led_level, g_Fan_event_queue>>
    /\ UNCHANGED <<ehVars, hapVars, sendVars, time_us>>

ButtonISR_nodebounce(id) ==
    /\ g_Fan_event_queue' =
           xQueueSendFromISR(g_Fan_event_queue, Event(SOURCE_BUTTON, id, 0))
    /\ prev_time_us' = time_us
    /\ UNCHANGED <<fanVars, ehVars, hapVars, sendVars, time_us>>

\* the body shared by power_interrupt and oscillate_interrupt
\* the interrupt moving prev_time_us only when the queue took the event
ButtonISR_onsend(id) ==
    /\ IF time_us - prev_time_us < MIN_TIME_BETWEEN_PRESS
       THEN UNCHANGED <<g_Fan_event_queue, prev_time_us>>
       ELSE /\ g_Fan_event_queue' =
                   xQueueSendFromISR(g_Fan_event_queue, Event(SOURCE_BUTTON, id, 0))
            /\ prev_time_us' = IF QueueFull(g_Fan_event_queue)
                               THEN prev_time_us
                               ELSE time_us
    /\ UNCHANGED <<fanVars, ehVars, hapVars, sendVars, time_us>>

ButtonISR(id) ==
    /\ IF time_us - prev_time_us < MIN_TIME_BETWEEN_PRESS
       THEN UNCHANGED <<g_Fan_event_queue, prev_time_us>>
       ELSE /\ g_Fan_event_queue' =
                   xQueueSendFromISR(g_Fan_event_queue, Event(SOURCE_BUTTON, id, 0))
            /\ prev_time_us' = time_us
    /\ UNCHANGED <<fanVars, ehVars, hapVars, sendVars, time_us>>

power_interrupt == ButtonISR(ID_POWER)

oscillate_interrupt == ButtonISR(ID_OSCILLATE)

(***************************************************************************)
(* homekit.c                                                               *)
(***************************************************************************)
HAP_CHAR_UUID_ON == "25"
HAP_CHAR_UUID_ROTATION_SPEED == "29"
HAP_CHAR_UUID_SWING_MODE == "B6"
HAP_CHAR_UUID_NAME == "23"

\* a write is [uuid, val]; val is the bool as 0/1 or the float truncated by (int)
Write(uuid, val) == [uuid |-> uuid, val |-> val]

\* the binning with the upper end of each bin left to the next bin
SpeedBin_below(integer_speed) ==
    IF integer_speed = 0 THEN SPEED_OFF
    ELSE IF integer_speed < 25 THEN SPEED_1
    ELSE IF integer_speed < 50 THEN SPEED_2
    ELSE IF integer_speed < 75 THEN SPEED_3
    ELSE SPEED_4

\* the binning of integer_speed in HomeKit_write_callback
SpeedBin(integer_speed) ==
    IF integer_speed = 0 THEN SPEED_OFF
    ELSE IF integer_speed <= 25 THEN SPEED_1
    ELSE IF integer_speed <= 50 THEN SPEED_2
    ELSE IF integer_speed <= 75 THEN SPEED_3
    ELSE SPEED_4

\* the callback taking a characteristic it does not know for the power
WriteEvent_power(write) ==
    CASE write.uuid = HAP_CHAR_UUID_SWING_MODE ->
            Event(SOURCE_HOMEKIT, ID_OSCILLATE, write.val)
      [] write.uuid = HAP_CHAR_UUID_ROTATION_SPEED ->
            Event(SOURCE_HOMEKIT, ID_SPEED, SpeedBin(write.val))
      [] OTHER -> Event(SOURCE_HOMEKIT, ID_POWER, write.val)

\* the event HomeKit_write_callback builds for one write, NoEvent for an
\* unknown characteristic
WriteEvent(write) ==
    CASE write.uuid = HAP_CHAR_UUID_ON ->
            Event(SOURCE_HOMEKIT, ID_POWER, write.val)
      [] write.uuid = HAP_CHAR_UUID_SWING_MODE ->
            Event(SOURCE_HOMEKIT, ID_OSCILLATE, write.val)
      [] write.uuid = HAP_CHAR_UUID_ROTATION_SPEED ->
            Event(SOURCE_HOMEKIT, ID_SPEED, SpeedBin(write.val))
      [] OTHER -> NoEvent

\* hap_char_update_val(write->hc, &write->val) and *(write->status) = SUCCESS
HapUpdate(hap, write) ==
    CASE write.uuid = HAP_CHAR_UUID_ON ->
            [hap EXCEPT !.on = write.val, !.status = "SUCCESS"]
      [] write.uuid = HAP_CHAR_UUID_SWING_MODE ->
            [hap EXCEPT !.oscillate = write.val, !.status = "SUCCESS"]
      [] write.uuid = HAP_CHAR_UUID_ROTATION_SPEED ->
            [hap EXCEPT !.speed = write.val, !.status = "SUCCESS"]
      [] OTHER -> hap

\* the for loop of HomeKit_write_callback from write_data[i] on, until it
\* returns (rest = << >>) or blocks in xQueueSend on a full queue (rest =
\* the writes from the blocked one on)
RECURSIVE HomeKitLoop(_, _, _)
HomeKitLoop(writes, queue, hap) ==
    IF writes = << >>
    THEN [queue |-> queue, hap |-> hap, rest |-> << >>]
    ELSE IF WriteEvent(Head(writes)) = NoEvent
         THEN [queue |-> queue,
               hap |-> [hap EXCEPT !.status = "RES_ABSENT"],
               rest |-> << >>]
         ELSE IF QueueFull(queue)
              THEN [queue |-> queue,
                    hap |-> HapUpdate(hap, Head(writes)),
                    rest |-> writes]
              ELSE HomeKitLoop(Tail(writes),
                               Append(queue, WriteEvent(Head(writes))),
                               HapUpdate(hap, Head(writes)))

\* the characteristic values, and the status the callback gives a write
Hap == [on |-> on_char, oscillate |-> oscillate_char,
        speed |-> speed_char, status |-> "NONE"]

HomeKitResult(r) ==
    /\ g_Fan_event_queue' = r.queue
    /\ on_char' = r.hap.on
    /\ oscillate_char' = r.hap.oscillate
    /\ speed_char' = r.hap.speed
    /\ hk_writes' = r.rest
    /\ hk_ticks' = 0
    /\ UNCHANGED <<fanVars, ehVars, rm_send, rm_ticks, btnVars>>

\* HAP calls the write callback with write_data
HomeKit_write_callback(write_data) ==
    /\ hk_writes = << >>
    /\ HomeKitResult(HomeKitLoop(write_data, g_Fan_event_queue, Hap))

\* the blocked xQueueSend finds room within its 10 ticks; the loop goes on
HomeKit_send_unblock ==
    /\ hk_writes # << >>
    /\ ~QueueFull(g_Fan_event_queue)
    /\ HomeKitResult(HomeKitLoop(Tail(hk_writes),
                                 Append(g_Fan_event_queue, WriteEvent(Head(hk_writes))),
                                 Hap))

\* xQueueSend waiting without limit
HomeKit_send_timeout_never == FALSE

\* the blocked xQueueSend times out after 10 ticks on a queue still full:
\* the event is dropped ((void) xQueueSend) and the loop goes on
HomeKit_send_timeout ==
    /\ hk_writes # << >>
    /\ hk_ticks = HOMEKIT_SEND_TICKS
    /\ QueueFull(g_Fan_event_queue)
    /\ HomeKitResult(HomeKitLoop(Tail(hk_writes), g_Fan_event_queue, Hap))

(***************************************************************************)
(* remote.c                                                                *)
(***************************************************************************)
\* check_in_range taking a duration the margin away for in range
check_in_range_inclusive(signal_duration, spec_duration) ==
    /\ signal_duration <= spec_duration + DURATION_ERROR_MARGIN
    /\ signal_duration >= spec_duration - DURATION_ERROR_MARGIN

\* a symbol is <<duration0, duration1>>; both spec durations exceed the
\* margin, so the uint32_t subtraction does not wrap
check_in_range(signal_duration, spec_duration) ==
    /\ signal_duration < spec_duration + DURATION_ERROR_MARGIN
    /\ signal_duration > spec_duration - DURATION_ERROR_MARGIN

parse_logic0(symbol) ==
    check_in_range(symbol[1], DURATION_LONG) /\ check_in_range(symbol[2], DURATION_SHORT)

parse_logic1(symbol) ==
    check_in_range(symbol[1], DURATION_SHORT) /\ check_in_range(symbol[2], DURATION_LONG)

\* the event is_command sends for ir_code, NoEvent when it returns false
is_command(ir_code) ==
    CASE ir_code = IR_CODE_POWER -> Event(SOURCE_REMOTE, ID_POWER, 0)
      [] ir_code = IR_CODE_OSCILLATE -> Event(SOURCE_REMOTE, ID_OSCILLATE, 0)
      [] ir_code = IR_CODE_SPEED -> Event(SOURCE_REMOTE, ID_SPEED, 0)
      [] ir_code = IR_CODE_TIME -> Event(SOURCE_REMOTE, ID_TIME, 0)
      [] ir_code = IR_CODE_TEMPERATURE -> Event(SOURCE_REMOTE, ID_TEMPERATURE, 0)
      [] OTHER -> NoEvent

RECURSIVE Pow2(_)
Pow2(n) == IF n = 0 THEN 1 ELSE 2 * Pow2(n - 1)

\* value of an ir_code whose shift count was out of range (undefined in C)
Undef == -1

SetBit_lsb(ir_code, bit_index) ==
    IF bit_index >= NUM_SYMBOL_EXPECTED \/ ir_code = Undef
    THEN Undef
    ELSE IF (ir_code \div Pow2(bit_index)) % 2 = 1
         THEN ir_code
         ELSE (ir_code + Pow2(bit_index)) % HALF_WIDTH

\* ir_code |= (1 << (NUM_SYMBOL_EXPECTED - bit_index - 1)), kept in a uint16_t.
\* bit_index is a size_t: from bit_index = NUM_SYMBOL_EXPECTED on the count
\* wraps to at least the width of int and the shift is undefined.
SetBit(ir_code, bit_index) ==
    IF bit_index >= NUM_SYMBOL_EXPECTED \/ ir_code = Undef
    THEN Undef
    ELSE LET k == NUM_SYMBOL_EXPECTED - bit_index - 1
         IN  IF (ir_code \div Pow2(k)) % 2 = 1
             THEN ir_code
             ELSE (ir_code + Pow2(k)) % HALF_WIDTH

RECURSIVE ParseLoop_window(_, _, _, _)
ParseLoop_window(rmt_symbols, i, ir_code, bit_index) ==
    IF i > Len(rmt_symbols)
    THEN << >>
    ELSE LET symbol == rmt_symbols[i]
             code1 == IF parse_logic1(symbol) THEN SetBit(ir_code, bit_index) ELSE ir_code
             bit1 == bit_index + 1
         IN  IF ~parse_logic1(symbol) /\ ~parse_logic0(symbol)
             THEN ParseLoop_window(rmt_symbols, i + 1, 0, 0)
             ELSE IF bit1 = NUM_SYMBOL_EXPECTED
                  THEN IF is_command(code1) = NoEvent
                       THEN ParseLoop_window(rmt_symbols, i + 1, 0, 0)
                       ELSE <<is_command(code1)>>
                            \o ParseLoop_window(rmt_symbols, i + 1, code1, bit1)
                  ELSE ParseLoop_window(rmt_symbols, i + 1, code1, bit1)

\* the loop resetting bit_index alone after a code that is no command
RECURSIVE ParseLoop_keepcode(_, _, _, _)
ParseLoop_keepcode(rmt_symbols, i, ir_code, bit_index) ==
    IF i > Len(rmt_symbols)
    THEN << >>
    ELSE LET symbol == rmt_symbols[i]
             code1 == IF parse_logic1(symbol) THEN SetBit(ir_code, bit_index) ELSE ir_code
             bit1 == bit_index + 1
         IN  IF ~parse_logic1(symbol) /\ ~parse_logic0(symbol)
             THEN << >>
             ELSE IF bit1 = NUM_SYMBOL_EXPECTED
                  THEN IF is_command(code1) = NoEvent
                       THEN ParseLoop_keepcode(rmt_symbols, i + 1, code1, 0)
                       ELSE <<is_command(code1)>>
                            \o ParseLoop_keepcode(rmt_symbols, i + 1, code1, bit1)
                  ELSE ParseLoop_keepcode(rmt_symbols, i + 1, code1, bit1)

\* the loop starting a new code after a command as it does after a code that
\* is no command
RECURSIVE ParseLoop_again(_, _, _, _)
ParseLoop_again(rmt_symbols, i, ir_code, bit_index) ==
    IF i > Len(rmt_symbols)
    THEN << >>
    ELSE LET symbol == rmt_symbols[i]
             code1 == IF parse_logic1(symbol) THEN SetBit(ir_code, bit_index) ELSE ir_code
             bit1 == bit_index + 1
         IN  IF ~parse_logic1(symbol) /\ ~parse_logic0(symbol)
             THEN << >>
             ELSE IF bit1 = NUM_SYMBOL_EXPECTED
                  THEN (IF is_command(code1) = NoEvent
                        THEN << >>
                        ELSE <<is_command(code1)>>)
                       \o ParseLoop_again(rmt_symbols, i + 1, 0, 0)
                  ELSE ParseLoop_again(rmt_symbols, i + 1, code1, bit1)

\* the for loop of parse_ir_code from rmt_symbols[i - 1] on: the events
\* is_command sends, in order
RECURSIVE ParseLoop(_, _, _, _)
ParseLoop(rmt_symbols, i, ir_code, bit_index) ==
    IF i > Len(rmt_symbols)
    THEN << >>
    ELSE LET symbol == rmt_symbols[i]
             code1 == IF parse_logic1(symbol) THEN SetBit(ir_code, bit_index) ELSE ir_code
             bit1 == bit_index + 1
         IN  IF ~parse_logic1(symbol) /\ ~parse_logic0(symbol)
             THEN << >>
             ELSE IF bit1 = NUM_SYMBOL_EXPECTED
                  THEN IF is_command(code1) = NoEvent
                       THEN ParseLoop(rmt_symbols, i + 1, 0, 0)
                       ELSE <<is_command(code1)>>
                            \o ParseLoop(rmt_symbols, i + 1, code1, bit1)
                  ELSE ParseLoop(rmt_symbols, i + 1, code1, bit1)

\* parse_ir_code without the test of num_symbols
parse_ir_code_anylength(rmt_symbols) ==
    ParseLoop(rmt_symbols, 1, 0, 0)

parse_ir_code(rmt_symbols) ==
    IF Len(rmt_symbols) # RMT_MAX_MEM_SYMBOLS
    THEN << >>
    ELSE ParseLoop(rmt_symbols, 1, 0, 0)

\* xQueueSend of the events of one frame in order, until one finds the
\* queue full and blocks
RECURSIVE SendLoop(_, _)
SendLoop(events, queue) ==
    IF events = << >> \/ QueueFull(queue)
    THEN [queue |-> queue, rest |-> events]
    ELSE SendLoop(Tail(events), Append(queue, Head(events)))

RemoteResult(r) ==
    /\ g_Fan_event_queue' = r.queue
    /\ rm_send' = r.rest
    /\ rm_ticks' = 0
    /\ UNCHANGED <<fanVars, ehVars, hapVars, hk_writes, hk_ticks, btnVars>>

\* the xQueueSend calls of is_command for the events of one frame
Remote_send(events) ==
    /\ rm_send = << >>
    /\ RemoteResult(SendLoop(events, g_Fan_event_queue))

\* Remote_task receives one frame from the RMT driver and parses it
Remote_task(rmt_symbols) == Remote_send(parse_ir_code(rmt_symbols))

\* the xQueueSend blocked in is_command finds room within its 10 ticks
Remote_send_unblock ==
    /\ rm_send # << >>
    /\ ~QueueFull(g_Fan_event_queue)
    /\ RemoteResult(SendLoop(rm_send, g_Fan_event_queue))

\* xQueueSend giving up on a full queue without the wait
Remote_send_timeout_nowait ==
    /\ rm_send # << >>
    /\ QueueFull(g_Fan_event_queue)
    /\ RemoteResult(SendLoop(Tail(rm_send), g_Fan_event_queue))

\* the xQueueSend blocked in is_command times out after 10 ticks on a
\* queue still full
Remote_send_timeout ==
    /\ rm_send # << >>
    /\ rm_ticks = REMOTE_SEND_TICKS
    /\ QueueFull(g_Fan_event_queue)
    /\ RemoteResult(SendLoop(Tail(rm_send), g_Fan_event_queue))

\* a tick of the RTOS while a task is blocked in xQueueSend and its wait has
\* not ended: each blocked task has waited one tick more
xTaskIncrementTick ==
    /\ \/ hk_writes # << >> /\ hk_ticks < HOMEKIT_SEND_TICKS
       \/ rm_send # << >> /\ rm_ticks < REMOTE_SEND_TICKS
    /\ hk_ticks' = IF hk_writes # << >> /\ hk_ticks < HOMEKIT_SEND_TICKS
                   THEN hk_ticks + 1 ELSE hk_ticks
    /\ rm_ticks' = IF rm_send # << >> /\ rm_ticks < REMOTE_SEND_TICKS
                   THEN rm_ticks + 1 ELSE rm_ticks
    /\ UNCHANGED <<fanVars, g_Fan_event_queue, ehVars, hapVars, btnVars>>
    /\ UNCHANGED <<hk_writes, rm_send>>

(***************************************************************************)
(* Inputs                                                                  *)
(***************************************************************************)
\* symbols at the nominal timings
SymOne == <<DURATION_SHORT, DURATION_LONG>>
SymZero == <<DURATION_LONG, DURATION_SHORT>>
\* a symbol that is neither
SymBad == <<DURATION_LONG, DURATION_LONG>>

\* bit b of an 11-bit code, b = 10 being the most significant
CodeBit(code, b) == (code \div Pow2(b)) % 2

\* the 11 symbols that carry code, most significant bit first, with the
\* given symbols for logic 1 and logic 0
Encode(code, one, zero) ==
    [i \in 1..NUM_SYMBOL_EXPECTED |->
        IF CodeBit(code, NUM_SYMBOL_EXPECTED - i) = 1 THEN one ELSE zero]

\* n copies of a symbol
Fill(n, symbol) == [i \in 1..n |-> symbol]

KnownCodes ==
    {IR_CODE_POWER, IR_CODE_OSCILLATE, IR_CODE_SPEED, IR_CODE_TIME, IR_CODE_TEMPERATURE}

\* the frame of one key press: the code, then zeros up to 48 symbols
KeyFrame(code) ==
    Encode(code, SymOne, SymZero)
    \o Fill(RMT_MAX_MEM_SYMBOLS - NUM_SYMBOL_EXPECTED, SymZero)

\* what parse_ir_code makes of the frame of each key
KeyEvents == [code \in KnownCodes |-> parse_ir_code(KeyFrame(code))]

\* the writes HomeKit sends
HomeKitWrites ==
    {Write(HAP_CHAR_UUID_ON, v) : v \in {0, 1}}
    \cup {Write(HAP_CHAR_UUID_SWING_MODE, v) : v \in {0, 1}}
    \cup {Write(HAP_CHAR_UUID_ROTATION_SPEED, v) : v \in {0, 25, 50, 75, 100}}

\* no button has seen an edge yet; yield[id] is the time of the last edge of
\* button id that put an event on the queue, -1 before the first
NoEdge ==
    [yield |-> [id \in {ID_POWER, ID_OSCILLATE} |-> -1],
     id |-> -1, since |-> -1, room |-> FALSE, yielded |-> FALSE]

\* no command has been handled yet
NoCommand ==
    [event |-> NoEvent, state |-> [on |-> FALSE, oscillate |-> FALSE, speed |-> SPEED_4],
     led_enable |-> TRUE, relay |-> Relay_init, led |-> Led_init,
     relay_gpio |-> << >>, led_gpio |-> << >>, publish |-> << >>]

\* the callback has not been called yet
NoWrites == [writes |-> << >>, events |-> << >>, status |-> "NONE", failed |-> FALSE]

\* no attempt to send has ended yet
NoAttempt == [source |-> -1, full |-> FALSE, accepted |-> FALSE, untouched |-> TRUE]

(***************************************************************************)
(* Initial state: app_main has run Relay_init, Led_init, HomeKit_init,     *)
(* Button_init, Remote_init, has set g_Fan_state and created the queue     *)
(* and the event handler task.                                             *)
(***************************************************************************)
Init ==
    /\ g_Fan_state = [on |-> FALSE, oscillate |-> FALSE, speed |-> SPEED_4]
    /\ g_Led_enable = TRUE
    /\ relay_level = Relay_init
    /\ led_level = Led_init
    /\ g_Fan_event_queue = << >>
    /\ eh_pc = "receive"
    /\ eh_event = NoEvent
    /\ eh_gpio = << >>
    /\ main_pc = "done"
    /\ on_char = 0
    /\ oscillate_char = 0
    /\ speed_char = 0
    /\ hk_writes = << >>
    /\ rm_send = << >>
    /\ hk_ticks = 0
    /\ rm_ticks = 0
    /\ time_us = 0
    /\ prev_time_us = 0
    /\ edges = NoEdge
    /\ trace = << >>
    /\ rx_log = [symbols |-> << >>, events |-> << >>]
    /\ shadow = << >>
    /\ attempt = NoAttempt
    /\ frames = 0
    /\ last = NoCommand
    /\ sent = << >>
    /\ hk_log = NoWrites

(***************************************************************************)
(* The controller: every producer, one command waiting at a time           *)
(***************************************************************************)
\* commands queued or being handled
Outstanding == Len(g_Fan_event_queue) + (IF eh_pc = "handle" THEN 1 ELSE 0)

Pending == Outstanding < MaxPending

CtlHomeKit ==
    /\ Pending
    /\ \E w \in HomeKitWrites : HomeKit_write_callback(<<w>>)
    /\ UNCHANGED obsVars

CtlRemote ==
    /\ Pending
    /\ \E code \in KnownCodes : Remote_send(KeyEvents[code])
    /\ UNCHANGED obsVars

CtlPowerButton == Pending /\ power_interrupt /\ UNCHANGED obsVars

CtlOscillateButton == Pending /\ oscillate_interrupt /\ UNCHANGED obsVars

CtlTick ==
    /\ time_us + MIN_TIME_BETWEEN_PRESS <= MaxTime
    /\ Tick(MIN_TIME_BETWEEN_PRESS)
    /\ UNCHANGED obsVars

CtlHandler == Lasko_event_handler /\ UNCHANGED obsVars

Next ==
    \/ CtlHomeKit
    \/ CtlRemote
    \/ CtlPowerButton
    \/ CtlOscillateButton
    \/ CtlTick
    \/ CtlHandler

Spec == Init /\ [][Next]_vars

(***************************************************************************)
(* The controller with every gpio_set_level call on a relay as a step      *)
(***************************************************************************)
GpioReceive == EH_Receive /\ UNCHANGED obsVars

GpioWrite == EH_Gpio /\ UNCHANGED obsVars

GpioReturn == EH_Return /\ UNCHANGED obsVars

NextGpio ==
    \/ CtlHomeKit
    \/ CtlRemote
    \/ CtlPowerButton
    \/ CtlOscillateButton
    \/ CtlTick
    \/ GpioReceive
    \/ GpioWrite
    \/ GpioReturn

SpecGpio == Init /\ [][NextGpio]_vars

(***************************************************************************)
(* The remote alone: key presses, every relay gpio_set_level a step        *)
(***************************************************************************)
NextKeys ==
    \/ CtlRemote
    \/ GpioReceive
    \/ GpioWrite
    \/ GpioReturn

SpecKeys == Init /\ [][NextKeys]_vars

(***************************************************************************)
(* The power button alone: presses spaced by the debounce time             *)
(***************************************************************************)
\* what the observer logs when a handler returns
Handled ==
    [event |-> eh_event, before |-> g_Fan_state, state |-> g_Fan_state',
     gpio |-> Dispatch(eh_event).gpio, relay |-> relay_level]

PressTick ==
    /\ time_us < MaxPresses * MIN_TIME_BETWEEN_PRESS
    /\ Tick(MIN_TIME_BETWEEN_PRESS)
    /\ UNCHANGED obsVars

PressButton == power_interrupt /\ UNCHANGED obsVars

PressReceive == EH_Receive /\ UNCHANGED obsVars

PressGpio == EH_Gpio /\ UNCHANGED obsVars

PressReturn ==
    /\ EH_Return
    /\ trace' = Append(trace, Handled)
    /\ UNCHANGED <<edges, rx_log, shadow, attempt, frames, last, sent, hk_log>>

NextPress ==
    \/ PressTick
    \/ PressButton
    \/ PressReceive
    \/ PressGpio
    \/ PressReturn

SpecPress == Init /\ [][NextPress]_vars

(***************************************************************************)
(* The rules: every producer, and the event handler handling a command in  *)
(* one step. The observer notes the command, g_Fan_state, g_Led_enable and *)
(* the relay and LED levels the handler found, its gpio_set_level calls    *)
(* and its calls of HomeKit_update_char.                                   *)
(***************************************************************************)
RuleHandler ==
    /\ Lasko_event_handler
    /\ last' = [event |-> Head(g_Fan_event_queue),
                state |-> g_Fan_state,
                led_enable |-> g_Led_enable,
                relay |-> relay_level,
                led |-> led_level,
                relay_gpio |-> Dispatch(Head(g_Fan_event_queue)).gpio,
                led_gpio |-> HandlerLedGpio(Head(g_Fan_event_queue)),
                publish |-> HandlerPublish(Head(g_Fan_event_queue))]
    /\ UNCHANGED <<edges, trace, rx_log, shadow, attempt, frames, sent, hk_log>>

NextRules ==
    \/ CtlHomeKit
    \/ CtlRemote
    \/ CtlPowerButton
    \/ CtlOscillateButton
    \/ CtlTick
    \/ RuleHandler

SpecRules == Init /\ [][NextRules]_vars

(***************************************************************************)
(* The queue: the HomeKit task sending at will, a power button press, a    *)
(* key press of the remote, and the event handler                          *)
(***************************************************************************)
\* the observer's record of an attempt to send that ends in this step: full
\* = the queue was full when the attempt began
Attempt(source, full) ==
    [source |-> source, full |-> full,
     accepted |-> Len(g_Fan_event_queue') > Len(g_Fan_event_queue),
     untouched |-> g_Fan_event_queue' = g_Fan_event_queue]

\* the observer's queue after an attempt to send event ends in this step
Shadowed(event) ==
    IF Len(g_Fan_event_queue') > Len(g_Fan_event_queue)
    THEN Append(shadow, event)
    ELSE shadow

QueueWrite == Write(HAP_CHAR_UUID_ON, 1)

QueueKey == Event(SOURCE_REMOTE, ID_SPEED, 0)

QHomeKit ==
    /\ HomeKit_write_callback(<<QueueWrite>>)
    /\ IF hk_writes' = << >>
       THEN /\ attempt' = Attempt(SOURCE_HOMEKIT, QueueFull(g_Fan_event_queue))
            /\ shadow' = Shadowed(WriteEvent(QueueWrite))
       ELSE UNCHANGED <<attempt, shadow>>
    /\ UNCHANGED <<edges, trace, rx_log, frames, last, sent, hk_log>>

QHomeKitUnblock ==
    /\ HomeKit_send_unblock
    /\ attempt' = Attempt(SOURCE_HOMEKIT, TRUE)
    /\ shadow' = Shadowed(WriteEvent(Head(hk_writes)))
    /\ UNCHANGED <<edges, trace, rx_log, frames, last, sent, hk_log>>

QHomeKitTimeout ==
    /\ HomeKit_send_timeout
    /\ attempt' = Attempt(SOURCE_HOMEKIT, TRUE)
    /\ shadow' = Shadowed(WriteEvent(Head(hk_writes)))
    /\ UNCHANGED <<edges, trace, rx_log, frames, last, sent, hk_log>>

QRemote ==
    /\ frames < MaxFrames
    /\ frames' = frames + 1
    /\ Remote_send(KeyEvents[IR_CODE_SPEED])
    /\ IF rm_send' = << >>
       THEN /\ attempt' = Attempt(SOURCE_REMOTE, QueueFull(g_Fan_event_queue))
            /\ shadow' = Shadowed(QueueKey)
       ELSE UNCHANGED <<attempt, shadow>>
    /\ UNCHANGED <<edges, trace, rx_log, last, sent, hk_log>>

QRemoteUnblock ==
    /\ Remote_send_unblock
    /\ attempt' = Attempt(SOURCE_REMOTE, TRUE)
    /\ shadow' = Shadowed(Head(rm_send))
    /\ UNCHANGED <<edges, trace, rx_log, frames, last, sent, hk_log>>

QRemoteTimeout ==
    /\ Remote_send_timeout
    /\ attempt' = Attempt(SOURCE_REMOTE, TRUE)
    /\ shadow' = Shadowed(Head(rm_send))
    /\ UNCHANGED <<edges, trace, rx_log, frames, last, sent, hk_log>>

QButton ==
    /\ power_interrupt
    /\ IF prev_time_us' # prev_time_us
       THEN /\ attempt' = Attempt(SOURCE_BUTTON, QueueFull(g_Fan_event_queue))
            /\ shadow' = Shadowed(Event(SOURCE_BUTTON, ID_POWER, 0))
       ELSE UNCHANGED <<attempt, shadow>>
    /\ UNCHANGED <<edges, trace, rx_log, frames, last, sent, hk_log>>

\* the handler takes an event off: the observer checks it is the oldest
\* accepted one
QHandler ==
    /\ Lasko_event_handler
    /\ shadow' = IF shadow # << >> /\ Head(shadow) = Head(g_Fan_event_queue)
                 THEN Tail(shadow)
                 ELSE <<NoEvent>> \o shadow
    /\ UNCHANGED <<edges, trace, rx_log, attempt, frames, last, sent, hk_log>>

QTick == xTaskIncrementTick /\ UNCHANGED obsVars

NextQueue ==
    \/ QTick
    \/ QHomeKit
    \/ QHomeKitUnblock
    \/ QHomeKitTimeout
    \/ QRemote
    \/ QRemoteUnblock
    \/ QRemoteTimeout
    \/ CtlTick
    \/ QButton
    \/ QHandler

SpecQueue == Init /\ [][NextQueue]_vars

(***************************************************************************)
(* The wait: the HomeKit callback and the power button send, the tick      *)
(* interrupt runs and a task blocked in xQueueSend goes on getting to run; *)
(* nothing is asked of the event handler task. The observer notes how the  *)
(* attempts of the callback end. A second specification has the remote     *)
(* task send beside the callback, and notes how its attempts end.          *)
(***************************************************************************)
WaitHomeKit ==
    /\ HomeKit_write_callback(<<QueueWrite>>)
    /\ IF hk_writes' = << >>
       THEN attempt' = Attempt(SOURCE_HOMEKIT, QueueFull(g_Fan_event_queue))
       ELSE UNCHANGED attempt
    /\ UNCHANGED <<edges, trace, rx_log, shadow, frames, last, sent, hk_log>>

WaitHomeKitUnblock ==
    /\ HomeKit_send_unblock
    /\ attempt' = Attempt(SOURCE_HOMEKIT, TRUE)
    /\ UNCHANGED <<edges, trace, rx_log, shadow, frames, last, sent, hk_log>>

WaitHomeKitTimeout ==
    /\ HomeKit_send_timeout
    /\ attempt' = Attempt(SOURCE_HOMEKIT, TRUE)
    /\ UNCHANGED <<edges, trace, rx_log, shadow, frames, last, sent, hk_log>>

WaitRemote ==
    /\ frames < MaxFrames
    /\ frames' = frames + 1
    /\ Remote_send(KeyEvents[IR_CODE_SPEED])
    /\ IF rm_send' = << >>
       THEN attempt' = Attempt(SOURCE_REMOTE, QueueFull(g_Fan_event_queue))
       ELSE UNCHANGED attempt
    /\ UNCHANGED <<edges, trace, rx_log, shadow, last, sent, hk_log>>

WaitRemoteUnblock ==
    /\ Remote_send_unblock
    /\ attempt' = Attempt(SOURCE_REMOTE, TRUE)
    /\ UNCHANGED <<edges, trace, rx_log, shadow, frames, last, sent, hk_log>>

WaitRemoteTimeout ==
    /\ Remote_send_timeout
    /\ attempt' = Attempt(SOURCE_REMOTE, TRUE)
    /\ UNCHANGED <<edges, trace, rx_log, shadow, frames, last, sent, hk_log>>

NextWait ==
    \/ QTick
    \/ WaitHomeKit
    \/ WaitHomeKitUnblock
    \/ WaitHomeKitTimeout
    \/ CtlTick
    \/ PressButton
    \/ CtlHandler

SpecWait ==
    /\ Init
    /\ [][NextWait]_vars
    /\ WF_vars(QTick)
    /\ WF_vars(WaitHomeKitUnblock \/ WaitHomeKitTimeout)

NextWaitRemote ==
    \/ QTick
    \/ WaitHomeKit
    \/ WaitHomeKitUnblock
    \/ WaitHomeKitTimeout
    \/ WaitRemote
    \/ WaitRemoteUnblock
    \/ WaitRemoteTimeout
    \/ CtlHandler

SpecWaitRemote ==
    /\ Init
    /\ [][NextWaitRemote]_vars
    /\ WF_vars(QTick)
    /\ WF_vars(WaitHomeKitUnblock \/ WaitHomeKitTimeout)
    /\ WF_vars(WaitRemoteUnblock \/ WaitRemoteTimeout)

(***************************************************************************)
(* main.c: app_main, from the call of HomeKit_init on. The relays and LEDs *)
(* are initialised; g_Fan_state is the zeroed global, prev_time_us the     *)
(* zeroed static, g_Fan_event_queue the NULL handle. A producer runs from  *)
(* the call that starts it: the HomeKit callback from hap_start at the end *)
(* of HomeKit_init, the button interrupts from gpio_isr_handler_add, the   *)
(* remote task from Remote_init; a frame of 48 symbols being far longer    *)
(* than the rest of app_main, the remote task decodes its first frame      *)
(* after app_main has returned.                                            *)
(***************************************************************************)
\* vTaskDelay((10 * 1000) / portTICK_PERIOD_MS), in microseconds
WIFI_STARTUP_US == 10000000

\* g_Fan_event_queue holds the handle xQueueCreate returned
QueueCreated == main_pc \in {"xTaskCreate", "done"}

\* hap_start has been called
HapStarted == main_pc # "HomeKit_init"

\* gpio_isr_handler_add has been called for both buttons
IsrInstalled == main_pc \notin {"HomeKit_init", "vTaskDelay", "Button_init"}

InitBoot ==
    /\ g_Fan_state = [on |-> FALSE, oscillate |-> FALSE, speed |-> SPEED_OFF]
    /\ g_Led_enable = TRUE
    /\ relay_level = Relay_init
    /\ led_level = Led_init
    /\ g_Fan_event_queue = << >>
    /\ eh_pc = "receive"
    /\ eh_event = NoEvent
    /\ eh_gpio = << >>
    /\ main_pc = "HomeKit_init"
    /\ on_char = 0
    /\ oscillate_char = 0
    /\ speed_char = 0
    /\ hk_writes = << >>
    /\ rm_send = << >>
    /\ hk_ticks = 0
    /\ rm_ticks = 0
    /\ time_us = 0
    /\ prev_time_us = 0
    /\ edges = NoEdge
    /\ trace = << >>
    /\ rx_log = [symbols |-> << >>, events |-> << >>]
    /\ shadow = << >>
    /\ attempt = NoAttempt
    /\ frames = 0
    /\ last = NoCommand
    /\ sent = << >>
    /\ hk_log = NoWrites

\* app_main goes from one call to the next
MainStep(from, to) ==
    /\ main_pc = from
    /\ main_pc' = to
    /\ UNCHANGED <<eh_pc, eh_event, eh_gpio, g_Led_enable, relay_level, led_level>>
    /\ UNCHANGED <<hapVars, sendVars, obsVars>>

Main_HomeKit_init ==
    /\ MainStep("HomeKit_init", "vTaskDelay")
    /\ UNCHANGED <<g_Fan_state, g_Fan_event_queue, btnVars>>

Main_vTaskDelay ==
    /\ MainStep("vTaskDelay", "Button_init")
    /\ time_us' = time_us + WIFI_STARTUP_US
    /\ UNCHANGED <<g_Fan_state, g_Fan_event_queue, prev_time_us>>

\* Button_init up to gpio_isr_handler_add
Main_Button_init ==
    /\ MainStep("Button_init", "gettimeofday")
    /\ UNCHANGED <<g_Fan_state, g_Fan_event_queue, btnVars>>

\* Button_init: prev_time_us = the time now
Main_gettimeofday ==
    /\ MainStep("gettimeofday", "Remote_init")
    /\ prev_time_us' = time_us
    /\ UNCHANGED <<g_Fan_state, g_Fan_event_queue, time_us>>

Main_Remote_init ==
    /\ MainStep("Remote_init", "g_Fan_state")
    /\ UNCHANGED <<g_Fan_state, g_Fan_event_queue, btnVars>>

Main_g_Fan_state ==
    /\ MainStep("g_Fan_state", "xQueueCreate")
    /\ g_Fan_state' = [on |-> FALSE, oscillate |-> FALSE, speed |-> SPEED_4]
    /\ UNCHANGED <<g_Fan_event_queue, btnVars>>

Main_xQueueCreate ==
    /\ MainStep("xQueueCreate", "xTaskCreate")
    /\ g_Fan_event_queue' = << >>
    /\ UNCHANGED <<g_Fan_state, btnVars>>

Main_xTaskCreate ==
    /\ MainStep("xTaskCreate", "done")
    /\ UNCHANGED <<g_Fan_state, g_Fan_event_queue, btnVars>>

app_main ==
    \/ Main_HomeKit_init
    \/ Main_vTaskDelay
    \/ Main_Button_init
    \/ Main_gettimeofday
    \/ Main_Remote_init
    \/ Main_g_Fan_state
    \/ Main_xQueueCreate
    \/ Main_xTaskCreate

\* xQueueSend or xQueueSendFromISR on the NULL handle: configASSERT(pxQueue)
\* aborts, and without the assertion the handle is dereferenced; either way
\* the chip panics, and halts or restarts as it is configured
Panic == main_pc' = "panic"

\* HomeKit_write_callback before xQueueCreate: the characteristic is updated,
\* then the event is sent
HomeKit_write_callback_early(write) ==
    /\ HapStarted
    /\ ~QueueCreated
    /\ main_pc # "panic"
    /\ on_char' = HomeKitLoop(<<write>>, << >>, Hap).hap.on
    /\ oscillate_char' = HomeKitLoop(<<write>>, << >>, Hap).hap.oscillate
    /\ speed_char' = HomeKitLoop(<<write>>, << >>, Hap).hap.speed
    /\ IF WriteEvent(write) # NoEvent THEN Panic ELSE UNCHANGED main_pc
    /\ UNCHANGED <<fanVars, g_Fan_event_queue, eh_pc, eh_event, eh_gpio>>
    /\ UNCHANGED <<sendVars, btnVars>>

\* a button interrupt before xQueueCreate
ButtonISR_early(id) ==
    /\ IsrInstalled
    /\ ~QueueCreated
    /\ main_pc # "panic"
    /\ IF time_us - prev_time_us < MIN_TIME_BETWEEN_PRESS
       THEN UNCHANGED main_pc
       ELSE Panic
    /\ UNCHANGED <<fanVars, g_Fan_event_queue, eh_pc, eh_event, eh_gpio>>
    /\ UNCHANGED <<hapVars, sendVars, btnVars>>

BootMain == app_main

BootHomeKitEarly ==
    /\ \E w \in HomeKitWrites \cup {Write(HAP_CHAR_UUID_NAME, 0)} :
          HomeKit_write_callback_early(w)
    /\ UNCHANGED obsVars

BootButtonEarly ==
    /\ \E id \in {ID_POWER, ID_OSCILLATE} : ButtonISR_early(id)
    /\ UNCHANGED obsVars

BootHomeKit ==
    /\ QueueCreated
    /\ Pending
    /\ \E w \in HomeKitWrites : HomeKit_write_callback(<<w>>)
    /\ UNCHANGED obsVars

BootButton ==
    /\ QueueCreated
    /\ Pending
    /\ \E id \in {ID_POWER, ID_OSCILLATE} : ButtonISR(id)
    /\ UNCHANGED obsVars

BootRemote ==
    /\ main_pc = "done"
    /\ Pending
    /\ \E code \in KnownCodes : Remote_send(KeyEvents[code])
    /\ UNCHANGED obsVars

BootTick ==
    /\ main_pc = "done"
    /\ time_us + MIN_TIME_BETWEEN_PRESS <= WIFI_STARTUP_US + MaxTime
    /\ Tick(MIN_TIME_BETWEEN_PRESS)
    /\ UNCHANGED obsVars

BootHandler ==
    /\ main_pc = "done"
    /\ Lasko_event_handler
    /\ UNCHANGED obsVars

NextBoot ==
    \/ BootMain
    \/ BootHomeKitEarly
    \/ BootButtonEarly
    \/ BootHomeKit
    \/ BootButton
    \/ BootRemote
    \/ BootTick
    \/ BootHandler

SpecBoot == InitBoot /\ [][NextBoot]_vars

(***************************************************************************)
(* The buttons: edges on both buttons at any times, and the event handler  *)
(***************************************************************************)
\* the steps of time between edges: two of the first make 250 ms exactly,
\* one of each makes a microsecond less
HalfPress == MIN_TIME_BETWEEN_PRESS \div 2

ShortHalfPress == HalfPress - 1

ButtonTick(d) ==
    /\ time_us + d <= MaxButtonTime
    /\ Tick(d)
    /\ UNCHANGED obsVars

\* an edge on button id; the observer notes the time since the last edge
\* of this button that yielded an event, whether the queue had room, and
\* whether this edge yielded an event
ButtonEdge(id) ==
    /\ ButtonISR(id)
    /\ LET yielded == Len(g_Fan_event_queue') > Len(g_Fan_event_queue)
       IN  edges' =
               [yield |-> IF yielded
                          THEN [edges.yield EXCEPT ![id] = time_us]
                          ELSE edges.yield,
                id |-> id,
                since |-> IF edges.yield[id] < 0 THEN -1
                          ELSE time_us - edges.yield[id],
                room |-> ~QueueFull(g_Fan_event_queue),
                yielded |-> yielded]
    /\ UNCHANGED <<trace, rx_log, shadow, attempt, frames, last, sent, hk_log>>

NextButton ==
    \/ ButtonTick(HalfPress)
    \/ ButtonTick(ShortHalfPress)
    \/ ButtonEdge(ID_POWER)
    \/ ButtonEdge(ID_OSCILLATE)
    \/ CtlHandler

SpecButton == Init /\ [][NextButton]_vars

(***************************************************************************)
(* The decoder: the remote task given frames of every shape                *)
(***************************************************************************)
\* logic 1 and logic 0 with durations at the edge of the margin
SymOneEdge ==
    <<DURATION_SHORT - DURATION_ERROR_MARGIN + 1,
      DURATION_LONG + DURATION_ERROR_MARGIN - 1>>

SymZeroEdge ==
    <<DURATION_LONG - DURATION_ERROR_MARGIN + 1,
      DURATION_SHORT + DURATION_ERROR_MARGIN - 1>>

\* the symbols left of a frame after n
Rest(n) == RMT_MAX_MEM_SYMBOLS - n

\* what follows a code in its frame: zeros, ones, symbols that are neither,
\* or another code
Paddings(n) ==
    {Fill(n, SymZero), Fill(n, SymOne), Fill(n, SymBad),
     Encode(IR_CODE_POWER, SymOne, SymZero)
         \o Fill(n - NUM_SYMBOL_EXPECTED, SymZero)}

\* a known code in the first 11 symbols
CodeFrames ==
    {Encode(code, sym[1], sym[2]) \o padding :
        code \in KnownCodes,
        sym \in {<<SymOne, SymZero>>, <<SymOneEdge, SymZeroEdge>>},
        padding \in Paddings(Rest(NUM_SYMBOL_EXPECTED))}

\* a symbol that is neither logic 1 nor logic 0 among the first 11, then a
\* known code, either right after it or in symbols 12 to 22
BadFrames ==
    {Fill(p - 1, SymZero) \o <<SymBad>> \o Fill(q - p - 1, SymOne)
        \o Encode(code, SymOne, SymZero)
        \o Fill(Rest(q - 1 + NUM_SYMBOL_EXPECTED), SymZero) :
        code \in KnownCodes,
        p \in 1..NUM_SYMBOL_EXPECTED,
        q \in {NUM_SYMBOL_EXPECTED + 1}} \cup
    {Fill(p - 1, SymZero) \o <<SymBad>>
        \o Encode(code, SymOne, SymZero)
        \o Fill(Rest(p + NUM_SYMBOL_EXPECTED), SymZero) :
        code \in KnownCodes, p \in {1, 6}}

\* codes of 11 bits that are no command: no bit set, every bit set, the
\* one after the power code
UnknownCodes == {0, Pow2(NUM_SYMBOL_EXPECTED) - 1, IR_CODE_POWER + 1}

\* 11 symbols of an unknown code, then a known code
MissFrames ==
    {Encode(unknown, SymOne, SymZero) \o Encode(code, SymOne, SymZero)
        \o Fill(Rest(2 * NUM_SYMBOL_EXPECTED), SymZero) :
        code \in KnownCodes, unknown \in UnknownCodes}

\* a frame that did not fill the buffer: a known code and one symbol less
\* than fills it, a known code alone, a known code after an unknown one
ShortFrames ==
    {Encode(code, SymOne, SymZero) \o Fill(Rest(NUM_SYMBOL_EXPECTED + 1), SymZero) :
        code \in KnownCodes}
    \cup {Encode(code, SymOne, SymZero) : code \in KnownCodes}
    \cup {Encode(0, SymOne, SymZero) \o Encode(code, SymOne, SymZero) :
             code \in KnownCodes}

\* a known code, then copies of a known code for as long as the frame has
\* room for one, then ones
Repeated(first, code) ==
    Encode(first, SymOne, SymZero)
    \o Encode(code, SymOne, SymZero)
    \o Encode(code, SymOne, SymZero)
    \o Encode(code, SymOne, SymZero)
    \o Fill(Rest(NUM_SYMBOL_EXPECTED + NUM_SYMBOL_EXPECTED
                  + NUM_SYMBOL_EXPECTED + NUM_SYMBOL_EXPECTED), SymOne)

RepeatFrames ==
    {Repeated(first, code) : first \in KnownCodes \cup {0}, code \in KnownCodes}

Frames ==
    CodeFrames \cup BadFrames \cup MissFrames \cup ShortFrames \cup RepeatFrames

\* the remote task is given a frame; the observer notes the frame and the
\* events the task sent for it
DecodeFrame ==
    /\ Pending
    /\ \E rmt_symbols \in Frames :
        /\ Remote_task(rmt_symbols)
        /\ rx_log' =
               [symbols |-> rmt_symbols,
                events |-> SubSeq(g_Fan_event_queue',
                                  Len(g_Fan_event_queue) + 1,
                                  Len(g_Fan_event_queue')) \o rm_send']
    /\ UNCHANGED <<edges, trace, shadow, attempt, frames, last, sent, hk_log>>

NextDecode == DecodeFrame

SpecDecode == Init /\ [][NextDecode]_vars

(***************************************************************************)
(* The loop: the producers put a few commands on the queue at any time;    *)
(* the event handler task is scheduled fairly, every gpio_set_level call   *)
(* on a relay a step. The observer notes the events the queue accepted     *)
(* and the commands handled.                                               *)
(***************************************************************************)
\* the observer adds the events this step put on the queue
Accepts ==
    sent' = sent \o SubSeq(g_Fan_event_queue',
                           Len(g_Fan_event_queue) + 1,
                           Len(g_Fan_event_queue'))

LiveHomeKit ==
    /\ Len(sent) < MaxSent
    /\ \E v \in {0, 1} : HomeKit_write_callback(<<Write(HAP_CHAR_UUID_ON, v)>>)
    /\ Accepts
    /\ UNCHANGED <<edges, trace, rx_log, shadow, attempt, frames, last, hk_log>>

LiveRemote ==
    /\ Len(sent) < MaxSent
    /\ \E code \in KnownCodes : Remote_send(KeyEvents[code])
    /\ Accepts
    /\ UNCHANGED <<edges, trace, rx_log, shadow, attempt, frames, last, hk_log>>

LiveButton ==
    /\ Len(sent) < MaxSent
    /\ power_interrupt
    /\ Accepts
    /\ UNCHANGED <<edges, trace, rx_log, shadow, attempt, frames, last, hk_log>>

NextLive ==
    \/ LiveHomeKit
    \/ LiveRemote
    \/ LiveButton
    \/ CtlTick
    \/ PressReceive
    \/ PressGpio
    \/ PressReturn

SpecLive ==
    /\ Init
    /\ [][NextLive]_vars
    /\ WF_vars(PressReceive)
    /\ WF_vars(PressGpio)
    /\ WF_vars(PressReturn)

(***************************************************************************)
(* The adapter: HomeKit writes one or two characteristics at a time, the   *)
(* name of the accessory, which the callback does not know, among them.    *)
(* The observer notes the writes of the last call, the events the call put *)
(* on the queue, the status it gave, and whether any call has failed.      *)
(***************************************************************************)
AdapterWrites ==
    {Write(HAP_CHAR_UUID_ON, 0), Write(HAP_CHAR_UUID_ON, 1),
     Write(HAP_CHAR_UUID_SWING_MODE, 1), Write(HAP_CHAR_UUID_ROTATION_SPEED, 50),
     Write(HAP_CHAR_UUID_NAME, 0)}

Batches ==
    {<<w>> : w \in AdapterWrites}
    \cup {<<w1, w2>> : w1 \in AdapterWrites, w2 \in AdapterWrites}

AdapterWrite ==
    /\ Pending
    /\ \E write_data \in Batches :
        /\ HomeKit_write_callback(write_data)
        /\ LET status == HomeKitLoop(write_data, g_Fan_event_queue, Hap).hap.status
           IN  hk_log' =
                   [writes |-> write_data,
                    events |-> SubSeq(g_Fan_event_queue',
                                      Len(g_Fan_event_queue) + 1,
                                      Len(g_Fan_event_queue')),
                    status |-> status,
                    failed |-> hk_log.failed \/ status = "RES_ABSENT"]
    /\ UNCHANGED <<edges, trace, rx_log, shadow, attempt, frames, last, sent>>

NextAdapter ==
    \/ AdapterWrite
    \/ RuleHandler

SpecAdapter == Init /\ [][NextAdapter]_vars

(***************************************************************************)
(* The shapes: events of any source and id put on the queue, the event     *)
(* handler task as in the loop                                             *)
(***************************************************************************)
\* a source no producer gives its events
SOURCE_UNKNOWN == SOURCE_BUTTON + 1

\* the events neither the switch of Lasko_event_handler nor the switch of
\* the handler it calls has a case for
NoRule ==
    {Event(SOURCE_HOMEKIT, ID_TIME, 0), Event(SOURCE_HOMEKIT, ID_TEMPERATURE, 0),
     Event(SOURCE_BUTTON, ID_SPEED, 0), Event(SOURCE_BUTTON, ID_TIME, 0),
     Event(SOURCE_BUTTON, ID_TEMPERATURE, 0), Event(SOURCE_UNKNOWN, ID_POWER, 0)}

\* some events the handlers have a case for
SomeRule ==
    {Event(SOURCE_HOMEKIT, ID_POWER, 1), Event(SOURCE_BUTTON, ID_POWER, 0),
     Event(SOURCE_REMOTE, ID_OSCILLATE, 0)}

ShapeSend ==
    /\ Len(sent) < MaxSent
    /\ \E event \in NoRule \cup SomeRule :
           g_Fan_event_queue' = xQueueSendFromISR(g_Fan_event_queue, event)
    /\ Accepts
    /\ UNCHANGED <<fanVars, ehVars, hapVars, sendVars, btnVars>>
    /\ UNCHANGED <<edges, trace, rx_log, shadow, attempt, frames, last, hk_log>>

NextShapes ==
    \/ ShapeSend
    \/ PressReceive
    \/ PressGpio
    \/ PressReturn

SpecShapes ==
    /\ Init
    /\ [][NextShapes]_vars
    /\ WF_vars(PressReceive)
    /\ WF_vars(PressGpio)
    /\ WF_vars(PressReturn)

(***************************************************************************)
(* The debounce clock: edges on both buttons at any times while HomeKit    *)
(* writes fill the queue and no event is taken off. The observer notes,    *)
(* for the last edge, its button, its time, prev_time_us before and after  *)
(* it, whether the queue was full and whether the edge yielded an event.   *)
(***************************************************************************)
ClockEdge(id) ==
    /\ ButtonISR(id)
    /\ edges' = [id |-> id,
                 at |-> time_us,
                 before |-> prev_time_us,
                 after |-> prev_time_us',
                 full |-> QueueFull(g_Fan_event_queue),
                 yielded |-> g_Fan_event_queue' # g_Fan_event_queue]
    /\ UNCHANGED <<trace, rx_log, shadow, attempt, frames, last, sent, hk_log>>

\* a HomeKit write that finds room in the queue
ClockHomeKit ==
    /\ ~QueueFull(g_Fan_event_queue)
    /\ HomeKit_write_callback(<<QueueWrite>>)
    /\ UNCHANGED obsVars

NextClock ==
    \/ ButtonTick(HalfPress)
    \/ ButtonTick(ShortHalfPress)
    \/ ClockEdge(ID_POWER)
    \/ ClockEdge(ID_OSCILLATE)
    \/ ClockHomeKit

SpecClock == Init /\ [][NextClock]_vars

(***************************************************************************)
(* One symbol: the remote task given the frame of the power key with one   *)
(* symbol, where the code has a 0 or where it has a 1, replaced by a       *)
(* symbol whose durations are at, 1 us inside or 1 us outside the margin   *)
(* of the short or the long duration. The task sends the power command     *)
(* exactly if parse_logic0, or parse_logic1, takes the symbol.             *)
(***************************************************************************)
\* a symbol of the power code that is a 0, and one that is a 1
ZeroAt ==
    CHOOSE i \in 1..NUM_SYMBOL_EXPECTED :
        CodeBit(IR_CODE_POWER, NUM_SYMBOL_EXPECTED - i) = 0

OneAt ==
    CHOOSE i \in 1..NUM_SYMBOL_EXPECTED :
        CodeBit(IR_CODE_POWER, NUM_SYMBOL_EXPECTED - i) = 1

\* durations around a spec duration
Around(spec_duration) ==
    {spec_duration + d :
        d \in {0 - DURATION_ERROR_MARGIN - 1, 0 - DURATION_ERROR_MARGIN,
               1 - DURATION_ERROR_MARGIN, 0, DURATION_ERROR_MARGIN - 1,
               DURATION_ERROR_MARGIN, DURATION_ERROR_MARGIN + 1}}

ProbeDurations == Around(DURATION_SHORT) \cup Around(DURATION_LONG)

\* the frame of the power key with the symbol at position at replaced
Probe(at, symbol) ==
    [KeyFrame(IR_CODE_POWER) EXCEPT ![at] = symbol]

ProbeFrame ==
    /\ Pending
    /\ \E at \in {ZeroAt, OneAt}, mark \in ProbeDurations, space \in ProbeDurations :
        /\ Remote_task(Probe(at, <<mark, space>>))
        /\ rx_log' =
               [symbols |-> Probe(at, <<mark, space>>),
                events |-> SubSeq(g_Fan_event_queue',
                                  Len(g_Fan_event_queue) + 1,
                                  Len(g_Fan_event_queue')) \o rm_send']
    /\ UNCHANGED <<edges, trace, shadow, attempt, frames, last, sent, hk_log>>

NextProbe == ProbeFrame

SpecProbe == Init /\ [][NextProbe]_vars

(***************************************************************************)
(* The speed characteristic: HomeKit writes rotation speeds at both ends   *)
(* of every bin, the values HomeKit_update_char publishes among them, and  *)
(* turns the fan on and off; the keys of the remote change the speed and   *)
(* have it published. The observer notes each write with the event queued  *)
(* for it, and each command handled with what was published.               *)
(***************************************************************************)
\* rotation speeds written: both ends of the bins of HomeKit_write_callback
SpeedProbes == {0, 1, 25, 26, 50, 51, 75, 76, 100, 101}

SpeedWrites ==
    {Write(HAP_CHAR_UUID_ROTATION_SPEED, v) : v \in SpeedProbes}
    \cup {Write(HAP_CHAR_UUID_ON, v) : v \in {0, 1}}

SpeedWrite ==
    /\ Pending
    /\ \E w \in SpeedWrites :
        /\ HomeKit_write_callback(<<w>>)
        /\ hk_log' =
               [writes |-> <<w>>,
                events |-> SubSeq(g_Fan_event_queue',
                                  Len(g_Fan_event_queue) + 1,
                                  Len(g_Fan_event_queue')),
                status |-> HomeKitLoop(<<w>>, g_Fan_event_queue, Hap).hap.status,
                failed |-> hk_log.failed]
    /\ UNCHANGED <<edges, trace, rx_log, shadow, attempt, frames, last, sent>>

SpeedRemote ==
    /\ Pending
    /\ \E code \in {IR_CODE_POWER, IR_CODE_SPEED} : Remote_send(KeyEvents[code])
    /\ UNCHANGED obsVars

NextSpeed == SpeedWrite \/ SpeedRemote \/ RuleHandler

SpecSpeed == Init /\ [][NextSpeed]_vars

(***************************************************************************)
(* HomeKit commands back to back: the HomeKit callback as the one          *)
(* producer, every write it maps to a command, and the event handler; the  *)
(* observer keeps the last two commands handled, each with g_Fan_state     *)
(* before it and g_Fan_state and the relay levels after it.                *)
(***************************************************************************)
PairHomeKit ==
    /\ Pending
    /\ \E w \in HomeKitWrites : HomeKit_write_callback(<<w>>)
    /\ UNCHANGED obsVars

PairHandler ==
    /\ Lasko_event_handler
    /\ trace' = (IF trace = << >> THEN << >> ELSE <<trace[Len(trace)]>>)
                \o << [event |-> Head(g_Fan_event_queue),
                       before |-> g_Fan_state,
                       state |-> g_Fan_state',
                       relay |-> relay_level'] >>
    /\ UNCHANGED <<edges, rx_log, shadow, attempt, frames, last, sent, hk_log>>

NextPair == PairHomeKit \/ PairHandler

SpecPair == Init /\ [][NextPair]_vars

(***************************************************************************)
(* Properties                                                              *)
(***************************************************************************)
Idle == eh_pc = "receive"

Energized(i) == relay_level[i] = GPIO_LOW

SpeedRelays == 0..(NUM_SPEED_RELAY - 1)

\* C1: whenever the event handler is between commands and g_Fan_state.on is
\* false, the four speed relays and the oscillation relay are de-energized,
\* whatever speed and oscillate are stored.
C1_OffMeansRelaysOff ==
    (Idle /\ ~g_Fan_state.on) =>
        \A i \in 0..(NUM_TOTAL_RELAY - 1) : ~Energized(i)

\* the fan is off between commands with a stored speed and a stored
\* oscillation other than the initial ones
C1_Witness ==
    /\ Idle
    /\ ~g_Fan_state.on
    /\ g_Fan_state.oscillate
    /\ g_Fan_state.speed = SPEED_2
    /\ on_char = 0

\* C2: at most one speed relay is energized in every state, the states
\* between two gpio_set_level calls of Relay_write_speed included.
C2_OneSpeedRelay ==
    Cardinality({i \in SpeedRelays : Energized(i)}) <= 1

\* Relay_write_speed has disabled the relays of a running fan and is about
\* to energize the relay of another speed
C2_Witness ==
    /\ eh_pc = "handle"
    /\ g_Fan_state.on
    /\ eh_gpio # << >>
    /\ Head(eh_gpio)[2] = GPIO_LOW
    /\ Head(eh_gpio)[1] \in SpeedRelays
    /\ Head(eh_gpio)[1] # g_Fan_state.speed - 1
    /\ \A i \in SpeedRelays : ~Energized(i)

ButtonPower == Event(SOURCE_BUTTON, ID_POWER, 0)

FanState(on, oscillate, speed) == [on |-> on, oscillate |-> oscillate, speed |-> speed]

\* the states the claim lists for the first five presses
PressCycle ==
    << FanState(TRUE, FALSE, SPEED_4), FanState(TRUE, FALSE, SPEED_3),
       FanState(TRUE, FALSE, SPEED_2), FanState(TRUE, FALSE, SPEED_1),
       FanState(FALSE, FALSE, SPEED_4) >>

\* gpio_set_level calls that write speed Off and oscillate false
WritesOff ==
    << <<0, GPIO_HIGH>>, <<1, GPIO_HIGH>>, <<2, GPIO_HIGH>>, <<3, GPIO_HIGH>>,
       <<OSC_RELAY, GPIO_HIGH>> >>

\* C3: from {on:false, speed:4} the first five Button/Power commands leave
\* {on,4}, {on,3}, {on,2}, {on,1}, {off, stored 4}; the fifth writes speed
\* Off and oscillate false to the relays.
C3_PressCycle ==
    /\ \A i \in 1..Len(trace) :
          i <= 5 => /\ trace[i].event = ButtonPower
                    /\ trace[i].state = PressCycle[i]
    /\ Len(trace) >= 5 =>
          /\ trace[5].gpio = WritesOff
          /\ \A r \in 0..(NUM_TOTAL_RELAY - 1) : trace[5].relay[r] = GPIO_HIGH

\* the fifth press has been handled
C3_Witness ==
    /\ Len(trace) = 5
    /\ Idle
    /\ g_Fan_state = FanState(FALSE, FALSE, SPEED_4)

RemoteSpeed == Event(SOURCE_REMOTE, ID_SPEED, 0)

\* the step in which the handler of the event returns
Returns(event) == eh_pc = "handle" /\ eh_pc' = "receive" /\ eh_event = event

\* the step in which the event is taken off the queue and handled whole
Handles(event) ==
    /\ eh_pc = "receive"
    /\ eh_pc' = "receive"
    /\ g_Fan_event_queue # << >>
    /\ Head(g_Fan_event_queue) = event
    /\ g_Fan_event_queue' = Tail(g_Fan_event_queue)

\* the step in which the event is taken off the queue
Receives(event) == eh_pc = "receive" /\ eh_pc' = "handle" /\ eh_event' = event

\* next lower speed with wraparound, as the claim lists it
LowerSpeed(speed) ==
    CASE speed = SPEED_4 -> SPEED_3
      [] speed = SPEED_3 -> SPEED_2
      [] speed = SPEED_2 -> SPEED_1
      [] speed = SPEED_1 -> SPEED_4

\* exactly the relay of the speed is energized among the speed relays
RelaysShow(relays, speed) ==
    \A i \in SpeedRelays : (relays[i] = GPIO_LOW) <=> (i = speed - 1)

\* C4: a Remote/Speed command handled while the fan is on leaves the next
\* lower speed with wraparound 4->3->2->1->4, never Off, in g_Fan_state.speed
\* and on the speed relays.
C4_RemoteSpeed ==
    [][(Returns(RemoteSpeed) /\ g_Fan_state.on) =>
          /\ g_Fan_state'.speed = LowerSpeed(g_Fan_state.speed)
          /\ g_Fan_state'.speed # SPEED_OFF
          /\ g_Fan_state'.on
          /\ RelaysShow(relay_level', g_Fan_state'.speed)]_vars

\* the Remote/Speed handler has written the relays from speed 1 to speed 4
C4_Witness ==
    /\ eh_pc = "handle"
    /\ eh_event = RemoteSpeed
    /\ eh_gpio = << >>
    /\ g_Fan_state.on
    /\ g_Fan_state.speed = SPEED_1
    /\ RelaysShow(relay_level, SPEED_4)

HomeKitPower(v) == Event(SOURCE_HOMEKIT, ID_POWER, v)

\* C5: a SmartHome/Power(v) command with v equal to g_Fan_state.on issues no
\* relay write and leaves g_Fan_state and the relays as they are.
C5_RedundantPower ==
    [][\A v \in {0, 1} :
          /\ (Receives(HomeKitPower(v)) /\ g_Fan_state.on = (v = 1)) =>
                eh_gpio' = << >>
          /\ (Returns(HomeKitPower(v)) /\ g_Fan_state.on = (v = 1)) =>
                /\ g_Fan_state' = g_Fan_state
                /\ relay_level' = relay_level]_vars

\* the handler is at a Power(true) command while the fan is on, with no
\* relay write to make
C5_Witness ==
    /\ eh_pc = "handle"
    /\ eh_event = HomeKitPower(1)
    /\ g_Fan_state.on
    /\ eh_gpio = << >>

\* what the claim says of every attempt to send, whoever makes it: one that
\* begins on a full queue is dropped
C6_DropAtOnce == attempt.full => ~attempt.accepted

\* C6 (as first stated): the queue holds at most 10 events, every attempt
\* to send that begins while 10 are queued is dropped and leaves the queue
\* as it was, and the handler takes the accepted events in the order of
\* their acceptance.
C6_Original ==
    /\ Len(g_Fan_event_queue) <= QUEUE_LENGTH
    /\ shadow = g_Fan_event_queue
    /\ C6_DropAtOnce
    /\ ~attempt.accepted => attempt.untouched

\* C6 (amended): the queue holds at most 10 events; an attempt of a button
\* interrupt that begins while 10 are queued is dropped at once; an attempt
\* of the HomeKit callback or of the remote task that begins while 10 are
\* queued is accepted if room appears before its wait ends and dropped
\* otherwise; no attempt is dropped while there is room, a dropped event
\* leaves the queue as it was, and the handler takes the accepted events in
\* the order of their acceptance.
C6_Queue ==
    /\ Len(g_Fan_event_queue) <= QUEUE_LENGTH
    /\ shadow = g_Fan_event_queue
    /\ (attempt.source = SOURCE_BUTTON /\ attempt.full) => ~attempt.accepted
    /\ (attempt # NoAttempt /\ ~attempt.full) => attempt.accepted
    /\ ~attempt.accepted => attempt.untouched

\* a button press has just been dropped on a queue of 10, after the handler
\* has taken events off
C6_Witness ==
    /\ Len(g_Fan_event_queue) = QUEUE_LENGTH
    /\ attempt = [source |-> SOURCE_BUTTON, full |-> TRUE,
                  accepted |-> FALSE, untouched |-> TRUE]
    /\ g_Fan_state.on

\* C7: of two edges on the same button less than 250 ms apart at most one
\* puts an event on the queue: an edge that yields an event comes at least
\* 250 ms after the last edge of its button that yielded one.
C7_Debounce ==
    (edges.yielded /\ edges.since >= 0) => edges.since >= MIN_TIME_BETWEEN_PRESS

\* an edge 249999 microseconds after an edge of the same button that yielded
\* an event has yielded none though the queue had room
C7_Witness ==
    /\ edges.id = ID_POWER
    /\ edges.since = MIN_TIME_BETWEEN_PRESS - 1
    /\ edges.room
    /\ ~edges.yielded

\* C8: an edge at least 250 ms after the last edge of the same button that
\* yielded an event yields an event when the queue has room, whatever the
\* edges on the other button.
C8_IndependentButtons ==
    (edges.since >= MIN_TIME_BETWEEN_PRESS /\ edges.room) => edges.yielded

\* the bit templates: a duration within the margin of short, of long
Short(d) ==
    /\ DURATION_SHORT - DURATION_ERROR_MARGIN < d
    /\ d < DURATION_SHORT + DURATION_ERROR_MARGIN

Long(d) ==
    /\ DURATION_LONG - DURATION_ERROR_MARGIN < d
    /\ d < DURATION_LONG + DURATION_ERROR_MARGIN

Logic1(symbol) == Short(symbol[1]) /\ Long(symbol[2])

Logic0(symbol) == Long(symbol[1]) /\ Short(symbol[2])

\* the 11 symbols from symbols[at] on spell code, most significant bit first
Carries(symbols, at, code) ==
    /\ at + NUM_SYMBOL_EXPECTED - 1 <= Len(symbols)
    /\ \A i \in 1..NUM_SYMBOL_EXPECTED :
        IF CodeBit(code, NUM_SYMBOL_EXPECTED - i) = 1
        THEN Logic1(symbols[at + i - 1])
        ELSE Logic0(symbols[at + i - 1])

\* the kind of command of each known code
KindOf(code) ==
    CASE code = IR_CODE_POWER -> ID_POWER
      [] code = IR_CODE_OSCILLATE -> ID_OSCILLATE
      [] code = IR_CODE_SPEED -> ID_SPEED
      [] code = IR_CODE_TIME -> ID_TIME
      [] code = IR_CODE_TEMPERATURE -> ID_TEMPERATURE

CommandOf(code) == Event(SOURCE_REMOTE, KindOf(code), 0)

FullFrame == Len(rx_log.symbols) = RMT_MAX_MEM_SYMBOLS

\* the first 11 symbols of the frame hold one that matches neither template
BadPairInFirstWindow ==
    \E p \in 1..NUM_SYMBOL_EXPECTED :
        ~Logic1(rx_log.symbols[p]) /\ ~Logic0(rx_log.symbols[p])

\* C9: a frame of 48 symbols whose first 11 spell a known code, most
\* significant bit first, makes the decoder send exactly one event, the
\* remote command of the kind of that code, whatever the other 37 symbols.
C9_KnownCode ==
    \A code \in KnownCodes :
        (FullFrame /\ Carries(rx_log.symbols, 1, code))
            => rx_log.events = <<CommandOf(code)>>

\* the temperature code, with durations at the edge of the margin and
\* followed by the power code, has sent the temperature command alone
C9_Witness ==
    /\ FullFrame
    /\ Carries(rx_log.symbols, 1, IR_CODE_TEMPERATURE)
    /\ rx_log.symbols[1] = SymZeroEdge
    /\ Carries(rx_log.symbols, NUM_SYMBOL_EXPECTED + 1, IR_CODE_POWER)
    /\ rx_log.events = <<CommandOf(IR_CODE_TEMPERATURE)>>

\* C10 (as first stated): a symbol that matches neither template among the
\* first 11 of a frame aborts that window only: a known code in symbols 12
\* to 22 of the frame still sends its command.
C10_Original ==
    \A code \in KnownCodes :
        (/\ FullFrame
         /\ BadPairInFirstWindow
         /\ Carries(rx_log.symbols, NUM_SYMBOL_EXPECTED + 1, code))
            => rx_log.events = <<CommandOf(code)>>

\* C10 (amended): a symbol that matches neither template among the first 11
\* of a frame ends the decoding of the whole frame, and the frame sends no
\* event, whatever follows; a first window of 11 valid symbols that spell no
\* known code is dropped alone, and a known code in symbols 12 to 22 still
\* sends its command.
C10_BadPair ==
    /\ (FullFrame /\ BadPairInFirstWindow) => rx_log.events = << >>
    /\ \A code \in KnownCodes :
        (/\ FullFrame
         /\ ~BadPairInFirstWindow
         /\ \A known \in KnownCodes : ~Carries(rx_log.symbols, 1, known)
         /\ Carries(rx_log.symbols, NUM_SYMBOL_EXPECTED + 1, code))
            => rx_log.events = <<CommandOf(code)>>

\* a frame with a bad symbol in sixth place and the speed code in symbols 12
\* to 22 has sent nothing
C10_Witness ==
    /\ FullFrame
    /\ ~Logic1(rx_log.symbols[6]) /\ ~Logic0(rx_log.symbols[6])
    /\ Carries(rx_log.symbols, NUM_SYMBOL_EXPECTED + 1, IR_CODE_SPEED)
    /\ rx_log.events = << >>

\* the relay writes of writing a speed, of writing an oscillation
SpeedGpio(speed) ==
    << <<0, GPIO_HIGH>>, <<1, GPIO_HIGH>>, <<2, GPIO_HIGH>>, <<3, GPIO_HIGH>> >>
    \o (IF speed = SPEED_OFF THEN << >> ELSE << <<speed - 1, GPIO_LOW>> >>)

OscillateGpio(oscillate) ==
    << <<OSC_RELAY, IF oscillate THEN GPIO_LOW ELSE GPIO_HIGH>> >>

\* the indicator writes of clearing the speed LEDs, of showing a speed
ClearLeds ==
    << <<0, GPIO_LOW>>, <<1, GPIO_LOW>>, <<2, GPIO_LOW>>, <<3, GPIO_LOW>> >>

ShowSpeed(S) ==
    ClearLeds \o (IF S.on THEN << <<S.speed - 1, GPIO_HIGH>> >> ELSE << >>)

IsCommand(c, source, id) == c.source = source /\ c.id = id

TogglesLeds(c) ==
    IsCommand(c, SOURCE_REMOTE, ID_TIME) \/ IsCommand(c, SOURCE_REMOTE, ID_TEMPERATURE)

\* the rule of each command as a function of the FanState S and the command
\* c alone: the FanState it leaves
RuleState(S, c) ==
    CASE IsCommand(c, SOURCE_HOMEKIT, ID_POWER) ->
            [S EXCEPT !.on = (c.arg # 0)]
      [] IsCommand(c, SOURCE_HOMEKIT, ID_OSCILLATE) ->
            [S EXCEPT !.oscillate = (c.arg # 0)]
      [] IsCommand(c, SOURCE_HOMEKIT, ID_SPEED) ->
            IF c.arg = SPEED_OFF THEN S ELSE [S EXCEPT !.speed = c.arg]
      [] IsCommand(c, SOURCE_BUTTON, ID_POWER) ->
            IF ~S.on THEN [S EXCEPT !.on = TRUE]
            ELSE IF S.speed = SPEED_1
                 THEN [S EXCEPT !.on = FALSE, !.speed = SPEED_4]
                 ELSE [S EXCEPT !.speed = S.speed - 1]
      [] IsCommand(c, SOURCE_BUTTON, ID_OSCILLATE)
         \/ IsCommand(c, SOURCE_REMOTE, ID_OSCILLATE) ->
            [S EXCEPT !.oscillate = ~S.oscillate]
      [] IsCommand(c, SOURCE_REMOTE, ID_POWER) ->
            [S EXCEPT !.on = ~S.on]
      [] IsCommand(c, SOURCE_REMOTE, ID_SPEED) ->
            IF S.on THEN [S EXCEPT !.speed = LowerSpeed(S.speed)] ELSE S
      [] OTHER -> S

\* the relay writes of the rule, as a function of S and c alone
RuleRelayGpio(S, c) ==
    LET T == RuleState(S, c)
    IN  CASE IsCommand(c, SOURCE_HOMEKIT, ID_POWER)
             \/ IsCommand(c, SOURCE_REMOTE, ID_POWER) ->
                IF T.on = S.on THEN << >>
                ELSE IF T.on
                     THEN SpeedGpio(S.speed) \o OscillateGpio(S.oscillate)
                     ELSE SpeedGpio(SPEED_OFF) \o OscillateGpio(FALSE)
          [] IsCommand(c, SOURCE_BUTTON, ID_POWER) ->
                IF T.on
                THEN SpeedGpio(T.speed) \o OscillateGpio(S.oscillate)
                ELSE SpeedGpio(SPEED_OFF) \o OscillateGpio(FALSE)
          [] c.id = ID_OSCILLATE ->
                IF S.on THEN OscillateGpio(T.oscillate) ELSE << >>
          [] c.id = ID_SPEED ->
                IF S.on /\ T.speed # S.speed THEN SpeedGpio(T.speed) ELSE << >>
          [] OTHER -> << >>

\* the indicator writes of the rule and of the resync that follows it, as a
\* function of S, the LED-enable flag and c
RuleLedGpio(S, enable, c) ==
    << <<BUILTIN_LED, GPIO_HIGH>> >>
    \o (IF TogglesLeds(c)
        THEN (IF enable THEN ClearLeds ELSE ShowSpeed(S))
        ELSE (IF enable THEN ShowSpeed(RuleState(S, c)) ELSE << >>))
    \o << <<BUILTIN_LED, GPIO_LOW>> >>

\* C11 (as first stated): a command handled in the FanState in which the
\* same command was handled the time before leaves the same FanState and
\* makes the same relay and indicator writes as the time before.
C11_Original ==
    [][(Handles(last.event) /\ last.state = g_Fan_state) =>
          /\ g_Fan_state' = g_Fan_state
          /\ last'.relay_gpio = last.relay_gpio
          /\ last'.led_gpio = last.led_gpio]_vars

\* C11 (amended): the FanState a command leaves and its relay writes are a
\* function of the FanState and the command alone; its indicator writes are
\* a function of the FanState, the command and the LED-enable flag.
C11_Deterministic ==
    last.event # NoEvent =>
        /\ g_Fan_state = RuleState(last.state, last.event)
        /\ last.relay_gpio = RuleRelayGpio(last.state, last.event)
        /\ last.led_gpio = RuleLedGpio(last.state, last.led_enable, last.event)

\* the Time key has been handled with the fan on and the LEDs disabled: it
\* lit the LED of the speed, where the same key in the same FanState with
\* the LEDs enabled clears them
C11_Witness ==
    /\ last.event = Event(SOURCE_REMOTE, ID_TIME, 0)
    /\ last.state.on
    /\ ~last.led_enable
    /\ last.led_gpio = RuleLedGpio(last.state, FALSE, last.event)
    /\ last.led_gpio # RuleLedGpio(last.state, TRUE, last.event)

NoRelayEnergized(relays) == \A i \in 0..(NUM_TOTAL_RELAY - 1) : relays[i] # GPIO_LOW

\* the oscillation relay is energized exactly if oscillate
OscillateRelayShows(relays, oscillate) == (relays[OSC_RELAY] = GPIO_LOW) <=> oscillate

\* C12: after a SmartHome/Power(v) command handled with v different from
\* g_Fan_state.on, the speed relays show the stored speed and the oscillation
\* relay the stored oscillate if v is true, no relay is energized if v is
\* false, g_Fan_state.on is v, and speed and oscillate are as stored.
C12_HomeKitPower ==
    \A v \in {0, 1} :
        (last.event = HomeKitPower(v) /\ last.state.on # (v = 1)) =>
            /\ g_Fan_state = [last.state EXCEPT !.on = (v = 1)]
            /\ IF v = 1
               THEN /\ RelaysShow(relay_level, last.state.speed)
                    /\ OscillateRelayShows(relay_level, last.state.oscillate)
               ELSE NoRelayEnergized(relay_level)

\* Power(true) has turned on a fan that was off with speed 2 and oscillate
\* stored
C12_Witness ==
    /\ last.event = HomeKitPower(1)
    /\ last.state = FanState(FALSE, TRUE, SPEED_2)
    /\ g_Fan_state.on
    /\ Energized(SPEED_2 - 1)
    /\ Energized(OSC_RELAY)

HomeKitSpeed(v) == Event(SOURCE_HOMEKIT, ID_SPEED, v)

\* C13: a SmartHome/Speed(Off) command leaves g_Fan_state and the relays as
\* they were; Speed(v) with v in 1..4 stores v in g_Fan_state.speed and
\* changes nothing else of it, leaves the speed relays showing v if the fan
\* is on and leaves the relays de-energized if it is off; whatever command
\* turns the fan on next leaves the speed relays showing the stored speed.
C13_HomeKitSpeed ==
    /\ last.event = HomeKitSpeed(SPEED_OFF) =>
          /\ g_Fan_state = last.state
          /\ relay_level = last.relay
          /\ last.relay_gpio = << >>
    /\ \A v \in SPEED_1..SPEED_4 :
          last.event = HomeKitSpeed(v) =>
              /\ g_Fan_state = [last.state EXCEPT !.speed = v]
              /\ IF last.state.on
                 THEN /\ RelaysShow(relay_level, v)
                      /\ relay_level[OSC_RELAY] = last.relay[OSC_RELAY]
                 ELSE NoRelayEnergized(relay_level) /\ last.relay_gpio = << >>
    /\ (~last.state.on /\ g_Fan_state.on) =>
          /\ g_Fan_state.speed = last.state.speed
          /\ RelaysShow(relay_level, last.state.speed)

\* Speed(2) has been stored while the fan was off at speed 4
C13_Witness ==
    /\ last.event = HomeKitSpeed(SPEED_2)
    /\ last.state = FanState(FALSE, FALSE, SPEED_4)
    /\ g_Fan_state = FanState(FALSE, FALSE, SPEED_2)
    /\ NoRelayEnergized(relay_level)

HomeKitOscillate(v) == Event(SOURCE_HOMEKIT, ID_OSCILLATE, v)

\* C14: a SmartHome/Oscillate(v) command stores v in g_Fan_state.oscillate
\* and leaves on and speed as they were; if the fan is on the oscillation
\* relay shows v and the speed relays are untouched, if it is off no relay is
\* written and the oscillation relay stays de-energized.
C14_HomeKitOscillate ==
    \A v \in {0, 1} :
        last.event = HomeKitOscillate(v) =>
            /\ g_Fan_state = [last.state EXCEPT !.oscillate = (v = 1)]
            /\ \A i \in SpeedRelays : relay_level[i] = last.relay[i]
            /\ IF last.state.on
               THEN OscillateRelayShows(relay_level, v = 1)
               ELSE /\ last.relay_gpio = << >>
                    /\ ~Energized(OSC_RELAY)

\* Oscillate(true) has been stored while the fan was off
C14_Witness ==
    /\ last.event = HomeKitOscillate(1)
    /\ ~last.state.on
    /\ ~last.state.oscillate
    /\ g_Fan_state.oscillate
    /\ ~Energized(OSC_RELAY)

RemotePower == Event(SOURCE_REMOTE, ID_POWER, 0)

\* C15: a Remote/Power command flips g_Fan_state.on and leaves speed and
\* oscillate as stored; turned on, the relays show the stored speed and the
\* stored oscillate, turned off, no relay is energized; a second Remote/Power
\* handled next leaves g_Fan_state and every relay as they were before the
\* first.
C15_RemotePower ==
    last.event = RemotePower =>
        /\ g_Fan_state = [last.state EXCEPT !.on = ~last.state.on]
        /\ IF g_Fan_state.on
           THEN /\ RelaysShow(relay_level, last.state.speed)
                /\ OscillateRelayShows(relay_level, last.state.oscillate)
           ELSE NoRelayEnergized(relay_level)
        /\ handle_remote(RemotePower).state = last.state
        /\ GpioLevels(relay_level, handle_remote(RemotePower).gpio) = last.relay

\* Remote/Power has turned off a fan that ran at speed 3 with oscillation
C15_Witness ==
    /\ last.event = RemotePower
    /\ last.state = FanState(TRUE, TRUE, SPEED_3)
    /\ g_Fan_state = FanState(FALSE, TRUE, SPEED_3)
    /\ NoRelayEnergized(relay_level)

ButtonOscillate == Event(SOURCE_BUTTON, ID_OSCILLATE, 0)

RemoteOscillate == Event(SOURCE_REMOTE, ID_OSCILLATE, 0)

\* C16: a Button/Oscillate and a Remote/Oscillate command each flip
\* g_Fan_state.oscillate, leave on and speed as they were, write the negated
\* value to the oscillation relay if the fan is on and write no relay if it
\* is off; in every state the two handlers leave the same g_Fan_state and
\* make the same relay writes.
C16_Oscillate ==
    /\ last.event \in {ButtonOscillate, RemoteOscillate} =>
          /\ g_Fan_state = [last.state EXCEPT !.oscillate = ~last.state.oscillate]
          /\ last.relay_gpio = IF last.state.on
                               THEN OscillateGpio(~last.state.oscillate)
                               ELSE << >>
          /\ relay_level = GpioLevels(last.relay, last.relay_gpio)
    /\ handle_button(ButtonOscillate).state = handle_remote(RemoteOscillate).state
    /\ handle_button(ButtonOscillate).gpio = handle_remote(RemoteOscillate).gpio

\* the oscillate button has stopped the oscillation of a running fan
C16_Witness ==
    /\ last.event = ButtonOscillate
    /\ last.state.on
    /\ last.state.oscillate
    /\ ~g_Fan_state.oscillate
    /\ ~Energized(OSC_RELAY)

\* C17: a Remote/Speed command handled while the fan is off writes no relay
\* and leaves g_Fan_state and every relay as they were.
C17_RemoteSpeedOff ==
    (last.event = RemoteSpeed /\ ~last.state.on) =>
        /\ g_Fan_state = last.state
        /\ relay_level = last.relay
        /\ last.relay_gpio = << >>

\* the speed key has been handled while the fan was off at stored speed 2
C17_Witness ==
    /\ last.event = RemoteSpeed
    /\ ~last.state.on
    /\ last.state.speed = SPEED_2
    /\ g_Fan_state.speed = SPEED_2

RemoteTime == Event(SOURCE_REMOTE, ID_TIME, 0)

RemoteTemperature == Event(SOURCE_REMOTE, ID_TEMPERATURE, 0)

\* C18: a Remote/TimeButton and a Remote/TempButton command each flip
\* g_Led_enable, write no relay and leave g_Fan_state and every relay as
\* they were; either of the two handled next gives g_Led_enable the value it
\* had before.
C18_LedToggle ==
    last.event \in {RemoteTime, RemoteTemperature} =>
        /\ g_Led_enable = ~last.led_enable
        /\ g_Fan_state = last.state
        /\ relay_level = last.relay
        /\ last.relay_gpio = << >>
        /\ \A c \in {RemoteTime, RemoteTemperature} :
              handle_remote(c).led_enable = last.led_enable

\* the Temp key has enabled the LEDs again
C18_Witness ==
    /\ last.event = RemoteTemperature
    /\ ~last.led_enable
    /\ g_Led_enable
    /\ g_Fan_state.on

SpeedLeds == 0..(NUM_SPEED_LED - 1)

\* C19: while g_Led_enable is false all four speed LEDs are off, whatever
\* commands are handled.
C19_DisabledLedsOff ==
    ~g_Led_enable => \A i \in SpeedLeds : led_level[i] = GPIO_LOW

\* a speed command has changed the speed of a running fan while the LEDs
\* were disabled
C19_Witness ==
    /\ last.event = HomeKitSpeed(SPEED_2)
    /\ ~last.led_enable
    /\ last.state.on
    /\ last.state.speed = SPEED_4
    /\ g_Fan_state.speed = SPEED_2
    /\ ~g_Led_enable
    /\ \A i \in SpeedLeds : led_level[i] = GPIO_LOW

\* exactly the LED of the speed is lit, none for SPEED_OFF
LedsShow(leds, speed) ==
    \A i \in SpeedLeds : (leds[i] = GPIO_HIGH) <=> (i = speed - 1)

Shown(state) == IF state.on THEN state.speed ELSE SPEED_OFF

\* commands no handler recognizes
Unrecognized ==
    {Event(SOURCE_HOMEKIT, ID_TIME, 0), Event(SOURCE_BUTTON, ID_SPEED, 0),
     Event(SOURCE_REMOTE, ID_TEMPERATURE + 1, 0), Event(SOURCE_BUTTON + 1, ID_POWER, 0)}

\* C20: after every command handled, if g_Led_enable is true exactly the LED
\* of g_Fan_state.speed is lit when the fan is on and no speed LED is lit
\* when it is off; a command no handler recognizes, handled in any state,
\* leaves the LEDs so as well.
C20_LedsShowSpeed ==
    /\ g_Led_enable => LedsShow(led_level, Shown(g_Fan_state))
    /\ \A c \in Unrecognized :
          Dispatch(c).led_enable =>
              LedsShow(HandlerLeds(c), Shown(Dispatch(c).state))

\* the Time key has enabled the LEDs again on a fan running at speed 3
C20_Witness ==
    /\ last.event = RemoteTime
    /\ ~last.led_enable
    /\ \A i \in SpeedLeds : last.led[i] = GPIO_LOW
    /\ g_Led_enable
    /\ g_Fan_state.on
    /\ g_Fan_state.speed = SPEED_3
    /\ led_level[SPEED_3 - 1] = GPIO_HIGH


\* what the HomeKit task holds when the fan state is S
Published(S) ==
    [on |-> IF S.on THEN 1 ELSE 0,
     oscillate |-> IF S.oscillate THEN 1 ELSE 0,
     speed |-> 25 * S.speed]

\* C21: handling a button or remote command publishes the fan state to the
\* HomeKit task exactly once, with the state as the command left it;
\* handling a HomeKit command publishes nothing.
C21_Publish ==
    /\ last.event.source \in {SOURCE_BUTTON, SOURCE_REMOTE}
           => last.publish = <<Published(g_Fan_state)>>
    /\ last.event.source = SOURCE_HOMEKIT => last.publish = << >>

\* a press of the power button in speed 1 has turned the fan off and
\* published it
C21_Witness ==
    /\ last.event = ButtonPower
    /\ last.state.on /\ last.state.speed = SPEED_1
    /\ ~g_Fan_state.on
    /\ last.publish = <<[on |-> 0, oscillate |-> 0, speed |-> 100]>>
    /\ on_char = 0


\* the first n handled commands are the first n events the queue accepted
InOrder ==
    /\ Len(trace) <= Len(sent)
    /\ \A n \in 1..Len(trace) : trace[n].event = sent[n]

\* the handler task goes from waiting to handling only with the event it
\* took off the head of the queue
AfterDequeue ==
    (eh_pc = "receive" /\ eh_pc' = "handle")
        => /\ g_Fan_event_queue # << >>
           /\ eh_event' = Head(g_Fan_event_queue)
           /\ g_Fan_event_queue' = Tail(g_Fan_event_queue)

\* while it waits on an empty queue the handler task does nothing
StaysBlocked ==
    (eh_pc = "receive" /\ g_Fan_event_queue = << >>)
        => /\ (eh_pc' = "handle" => g_Fan_event_queue' # << >>)
           /\ UNCHANGED <<fanVars, trace>>

\* C22: with the event handler task scheduled fairly, every command the
\* queue accepted is taken off and handled, once and in the order of
\* acceptance; the task handles a command only after it took it off the
\* queue and does nothing while the queue is empty.
C22_HandledOnce ==
    /\ [] InOrder
    /\ [][AfterDequeue /\ StaysBlocked]_vars
    /\ \A n \in 1..MaxSent : (Len(sent) >= n) ~> (Len(trace) >= n)

\* a HomeKit write, a press of the power button and the speed key were
\* accepted in this order and have all been handled: the fan runs at speed 2
C22_Witness ==
    /\ Len(sent) >= 3
    /\ Len(trace) = Len(sent)
    /\ sent[1].source = SOURCE_HOMEKIT
    /\ sent[2].source = SOURCE_BUTTON
    /\ sent[3] = RemoteSpeed
    /\ trace[3].state = FanState(TRUE, FALSE, SPEED_2)
    /\ Idle


\* a step of the event handler task on a command without a rule
OnNoRule == eh_event \in NoRule \/ eh_event' \in NoRule

\* the command handled after one without a rule found the state the one
\* before it had found, and was handled by its rule
NextAsUsual ==
    \A n \in 2..Len(trace) :
        trace[n - 1].event \in NoRule =>
            /\ trace[n].before = trace[n - 1].before
            /\ trace[n].state = RuleState(trace[n].before, trace[n].event)
            /\ trace[n].event \in SomeRule =>
                   trace[n].gpio = RuleRelayGpio(trace[n].before, trace[n].event)

\* C23: handling a command without a rule (HomeKit Time or Temp, Button
\* Speed, Time or Temp, an unknown source) changes neither g_Fan_state nor
\* g_Led_enable nor the level of any relay; the event handler task gets
\* back to the queue, and the command that follows is handled by its rule.
C23_NoRule ==
    /\ [][OnNoRule => UNCHANGED <<g_Fan_state, g_Led_enable, relay_level>>]_vars
    /\ [] NextAsUsual
    /\ (eh_event \in NoRule) ~> Idle
    /\ \A n \in 2..MaxSent :
           (Len(sent) >= n /\ sent[n - 1] \in NoRule) ~> (Len(trace) >= n)

\* a command of an unknown source was handled on a running fan, and the
\* press of the power button after it has lowered the speed
C23_Witness ==
    /\ Len(trace) = 3
    /\ trace[2].event = Event(SOURCE_UNKNOWN, ID_POWER, 0)
    /\ trace[2].before = FanState(TRUE, FALSE, SPEED_4)
    /\ trace[2].state = trace[2].before
    /\ trace[3].event = ButtonPower
    /\ g_Fan_state = FanState(TRUE, FALSE, SPEED_3)
    /\ Idle


\* a step of the event handler task
HandlerStep == EH_Receive \/ EH_Gpio \/ EH_Return

\* the queue after the step is the queue before it, or that with events
\* added at its end
OnlyEnqueues ==
    /\ Len(g_Fan_event_queue') >= Len(g_Fan_event_queue)
    /\ SubSeq(g_Fan_event_queue', 1, Len(g_Fan_event_queue)) = g_Fan_event_queue

\* C24: g_Fan_state, g_Led_enable and the levels of the relays and LEDs
\* change in steps of the event handler task alone; a step of a button
\* interrupt, of the remote task or of the HomeKit write callback leaves
\* them and the handler task as they are and at most adds events at the end
\* of the queue.
C24_SingleWriter ==
    [][~HandlerStep => (UNCHANGED <<fanVars, ehVars>> /\ OnlyEnqueues)]_vars

\* after the handler has turned oscillation on, the HomeKit callback has
\* taken a write that turns the fan on: the value is in the characteristic,
\* the command in the queue, the fan still off
C24_Witness ==
    /\ g_Fan_event_queue = <<HomeKitPower(1)>>
    /\ on_char = 1
    /\ g_Fan_state = FanState(FALSE, TRUE, SPEED_4)
    /\ relay_level = Relay_init
    /\ Idle


\* the HomeKit callback is blocked in xQueueSend
HomeKitBlocked == hk_writes # << >>

\* this step ends the wait of the callback with its event dropped
HomeKitGivesUp ==
    /\ HomeKitBlocked
    /\ hk_writes' = Tail(hk_writes)
    /\ g_Fan_event_queue' = g_Fan_event_queue

\* this step is a button interrupt that took its edge and found the queue full
ButtonOnFull ==
    /\ prev_time_us' # prev_time_us
    /\ QueueFull(g_Fan_event_queue)

\* C25: every attempt to send ends, whether or not the event handler task
\* ever runs: a button interrupt that finds the queue full has dropped its
\* event when it returns and left the queue as it was; the HomeKit callback
\* blocked on a full queue waits 10 ticks at most and drops its event only
\* after 10 ticks; the callback does not stay blocked for ever.
C25_SendsEnd ==
    /\ [][ButtonOnFull => UNCHANGED <<g_Fan_event_queue, sendVars>>]_vars
    /\ [] (hk_ticks <= HOMEKIT_SEND_TICKS)
    /\ [][HomeKitGivesUp => hk_ticks = HOMEKIT_SEND_TICKS]_vars
    /\ HomeKitBlocked ~> ~HomeKitBlocked

\* the callback has given up on a queue of 10 that no one took an event off
C25_Witness ==
    /\ attempt = [source |-> SOURCE_HOMEKIT, full |-> TRUE,
                  accepted |-> FALSE, untouched |-> TRUE]
    /\ ~HomeKitBlocked
    /\ Len(g_Fan_event_queue) = QUEUE_LENGTH
    /\ g_Fan_state = FanState(FALSE, FALSE, SPEED_4)
    /\ on_char = 1


\* the remote task is blocked in xQueueSend
RemoteBlocked == rm_send # << >>

\* this step ends the wait of the remote task with its event dropped
RemoteGivesUp ==
    /\ RemoteBlocked
    /\ rm_send' = Tail(rm_send)
    /\ g_Fan_event_queue' = g_Fan_event_queue

\* this step ends the wait of the remote task with its event in the queue
RemoteGetsRoom ==
    /\ RemoteBlocked
    /\ rm_send' = Tail(rm_send)
    /\ g_Fan_event_queue' = Append(g_Fan_event_queue, Head(rm_send))

\* C26 (as first stated): the remote task sends as the button interrupts
\* do: it never waits for room, and an event it sends while the queue is
\* full is dropped.
C26_Original ==
    /\ ~RemoteBlocked
    /\ (attempt.source = SOURCE_REMOTE /\ attempt.full) => ~attempt.accepted

\* C26 (amended): the remote task sends as the HomeKit callback does: an
\* event it sends while the queue has room is accepted at once; on a full
\* queue it waits for room, 10 ticks at most; its wait ends with the event
\* in the queue when there is room, or with the event dropped after 10
\* ticks on a queue still full, and it does end.
C26_BoundedWait ==
    /\ [] ((attempt.source = SOURCE_REMOTE /\ ~attempt.full) => attempt.accepted)
    /\ [][(~RemoteBlocked /\ RemoteBlocked') => QueueFull(g_Fan_event_queue)]_vars
    /\ [] (rm_ticks <= REMOTE_SEND_TICKS)
    /\ [][RemoteGivesUp =>
             (rm_ticks = REMOTE_SEND_TICKS /\ QueueFull(g_Fan_event_queue))]_vars
    /\ [][RemoteGetsRoom => ~QueueFull(g_Fan_event_queue)]_vars
    /\ [][(RemoteBlocked /\ ~RemoteBlocked') => (RemoteGivesUp \/ RemoteGetsRoom)]_vars
    /\ RemoteBlocked ~> ~RemoteBlocked

\* the speed key, sent on a queue of 10, is in the queue: the handler took
\* an event off while the remote task waited
C26_Witness ==
    /\ attempt = [source |-> SOURCE_REMOTE, full |-> TRUE,
                  accepted |-> TRUE, untouched |-> FALSE]
    /\ ~RemoteBlocked
    /\ g_Fan_event_queue[Len(g_Fan_event_queue)] = RemoteSpeed


\* C27: a frame of any number of symbols but 48 makes the decoder send no
\* event, whatever its symbols, a frame of the 11 symbols of a known code
\* included.
C27_WrongLength == ~FullFrame => rx_log.events = << >>

\* a frame of the 11 symbols of the power code alone has sent nothing
C27_Witness ==
    /\ Len(rx_log.symbols) = NUM_SYMBOL_EXPECTED
    /\ Carries(rx_log.symbols, 1, IR_CODE_POWER)
    /\ rx_log.events = << >>

\* the first 11 symbols of the frame are all logic 1 or logic 0 and spell
\* no known code
MissInFirstWindow ==
    /\ ~BadPairInFirstWindow
    /\ \A known \in KnownCodes : ~Carries(rx_log.symbols, 1, known)

\* C28: in a frame of 48 symbols whose first 11 are all valid bits that
\* spell no known code, the decoder starts afresh at symbol 12, with no bit
\* of the first 11 kept: a known code in symbols 12 to 22 sends its command,
\* and that command alone.
C28_MissRestarts ==
    \A code \in KnownCodes :
        (/\ FullFrame
         /\ MissInFirstWindow
         /\ Carries(rx_log.symbols, NUM_SYMBOL_EXPECTED + 1, code))
            => /\ Len(rx_log.events) = 1
               /\ Head(rx_log.events) = CommandOf(code)

\* 11 symbols of logic 1, then the oscillate code: the oscillate command
\* has been sent
C28_Witness ==
    /\ FullFrame
    /\ \A i \in 1..NUM_SYMBOL_EXPECTED : Logic1(rx_log.symbols[i])
    /\ Carries(rx_log.symbols, NUM_SYMBOL_EXPECTED + 1, IR_CODE_OSCILLATE)
    /\ rx_log.events = <<CommandOf(IR_CODE_OSCILLATE)>>


\* the characteristics the fan has
KnownUuids ==
    {HAP_CHAR_UUID_ON, HAP_CHAR_UUID_SWING_MODE, HAP_CHAR_UUID_ROTATION_SPEED}

\* the kind of command of each of them
KindOfUuid(uuid) ==
    CASE uuid = HAP_CHAR_UUID_ON -> ID_POWER
      [] uuid = HAP_CHAR_UUID_SWING_MODE -> ID_OSCILLATE
      [] uuid = HAP_CHAR_UUID_ROTATION_SPEED -> ID_SPEED

\* the place of the first write of an unknown characteristic, 0 if none
FirstUnknown(writes) ==
    IF \A i \in 1..Len(writes) : writes[i].uuid \in KnownUuids
    THEN 0
    ELSE CHOOSE i \in 1..Len(writes) :
            /\ writes[i].uuid \notin KnownUuids
            /\ \A j \in 1..(i - 1) : writes[j].uuid \in KnownUuids

\* the values HomeKit holds
HapValues == <<on_char, oscillate_char, speed_char>>

\* C29: a HomeKit write of a characteristic the fan does not have is turned
\* down by the callback: the call fails with the status "resource absent",
\* puts no event on the queue for that write (the queue gets the events of
\* the writes before it in the call, one each, and nothing more), and the
\* step changes neither g_Fan_state nor g_Led_enable nor a relay or LED nor
\* the event handler task; the queue holds commands of HomeKit with a rule
\* only, and the commands handled after a failed call follow their rules.
C29_UnknownCharacteristic ==
    /\ [] (LET u == FirstUnknown(hk_log.writes)
           IN  /\ (u > 0) = (hk_log.status = "RES_ABSENT")
               /\ u > 0 =>
                      /\ Len(hk_log.events) = u - 1
                      /\ \A i \in 1..(u - 1) :
                            /\ hk_log.events[i].source = SOURCE_HOMEKIT
                            /\ hk_log.events[i].id = KindOfUuid(hk_log.writes[i].uuid))
    /\ [] (\A i \in 1..Len(g_Fan_event_queue) :
              /\ g_Fan_event_queue[i].source = SOURCE_HOMEKIT
              /\ g_Fan_event_queue[i].id \in {ID_POWER, ID_OSCILLATE, ID_SPEED})
    /\ [] ((hk_log.failed /\ last.event # NoEvent) =>
              /\ g_Fan_state = RuleState(last.state, last.event)
              /\ last.relay_gpio = RuleRelayGpio(last.state, last.event))
    /\ [][Len(g_Fan_event_queue') >= Len(g_Fan_event_queue)
             => UNCHANGED <<fanVars, ehVars>>]_vars
    /\ [][(/\ hk_log'.writes = <<Write(HAP_CHAR_UUID_NAME, 0)>>
            /\ Len(g_Fan_event_queue') >= Len(g_Fan_event_queue))
             => UNCHANGED <<g_Fan_event_queue, HapValues>>]_vars

\* after a write of the name was turned down, a write that turns the fan on
\* was taken and its command handled
C29_Witness ==
    /\ hk_log.failed
    /\ hk_log.writes = <<Write(HAP_CHAR_UUID_ON, 1)>>
    /\ hk_log.status = "SUCCESS"
    /\ last.event = HomeKitPower(1)
    /\ ~last.state.on
    /\ g_Fan_state.on
    /\ g_Fan_event_queue = << >>


\* C30: whenever the queue is empty and the event handler task waits, and
\* no event was dropped, the power and swing values HomeKit holds are those
\* of g_Fan_state, however the HomeKit writes fell among the presses of the
\* buttons and of the remote. (In this specification the queue never fills,
\* so no event is dropped.)
C30_AdapterInSync ==
    (g_Fan_event_queue = << >> /\ Idle /\ Len(trace) = Len(sent))
        => /\ on_char = (IF g_Fan_state.on THEN 1 ELSE 0)
           /\ oscillate_char = (IF g_Fan_state.oscillate THEN 1 ELSE 0)


\* C31: no producer sends an event before app_main has initialised
\* g_Fan_state and created the queue: the HomeKit callback, the button
\* interrupts and the remote task get to send only once xQueueCreate has
\* returned.
C31_QueueFirst == main_pc # "panic"


\* C32: whenever the event handler is between commands and g_Fan_state.on is
\* true, the one speed relay energized is the relay of g_Fan_state.speed and
\* the oscillation relay is energized exactly when g_Fan_state.oscillate is
\* true; so a Relay_write_speed that returned early, the speed asked for
\* being the stored speed of a running fan, left the relays showing the
\* speed asked for.
C32_OnMeansRelaysShow ==
    /\ (Idle /\ g_Fan_state.on) =>
          /\ RelaysShow(relay_level, g_Fan_state.speed)
          /\ Energized(OSC_RELAY) <=> g_Fan_state.oscillate
    /\ (/\ Idle
        /\ last.event.source = SOURCE_HOMEKIT
        /\ last.event.id = ID_SPEED
        /\ last.state.on
        /\ last.event.arg = last.state.speed) =>
          /\ last.relay_gpio = << >>
          /\ RelaysShow(relay_level, last.event.arg)

\* the handler has handled a HomeKit speed command for the speed a running,
\* oscillating fan had: Relay_write_speed returned early
C32_Witness ==
    /\ Idle
    /\ last.event = Event(SOURCE_HOMEKIT, ID_SPEED, SPEED_2)
    /\ last.state = FanState(TRUE, TRUE, SPEED_2)
    /\ last.relay_gpio = << >>
    /\ g_Fan_state = FanState(TRUE, TRUE, SPEED_2)


\* C33: the speed stored in g_Fan_state is never SPEED_OFF: from the state
\* app_main leaves, after the commands of any producers in any order, the
\* HomeKit speed command with argument SPEED_OFF included, it is one of
\* SPEED_1 .. SPEED_4.
C33_SpeedNeverOff == g_Fan_state.speed \in SPEED_1..SPEED_4

\* the handler has handled a HomeKit speed command with argument SPEED_OFF
\* on a fan running at speed 3
C33_Witness ==
    /\ Idle
    /\ last.event = Event(SOURCE_HOMEKIT, ID_SPEED, SPEED_OFF)
    /\ last.state = FanState(TRUE, FALSE, SPEED_3)
    /\ g_Fan_state.speed = SPEED_3


\* the next speed as the claim gives it
FormulaNextSpeed(state) ==
    ((state.speed - 1) % SPEED_4) + (IF state.on THEN 0 ELSE 1)

\* C34: for every g_Fan_state the power button command is handled in,
\* next_speed of handle_button is ((speed - 1) mod 4) + (0 if on else 1);
\* from off with stored speed s the fan is turned on at s, the relay of s
\* energized and the stored oscillation applied; from on at speed s above 1
\* it goes to s - 1; from on at speed 1 it is turned off, every relay
\* de-energized and SPEED_4 stored.
C34_ButtonNextSpeed ==
    (Idle /\ last.event = ButtonPower) =>
        /\ ButtonNextSpeed(last.state) = FormulaNextSpeed(last.state)
        /\ g_Fan_state.oscillate = last.state.oscillate
        /\ ~last.state.on =>
              /\ g_Fan_state.on
              /\ g_Fan_state.speed = last.state.speed
        /\ (last.state.on /\ last.state.speed # SPEED_1) =>
              /\ g_Fan_state.on
              /\ g_Fan_state.speed = last.state.speed - 1
        /\ (last.state.on /\ last.state.speed = SPEED_1) =>
              /\ ~g_Fan_state.on
              /\ g_Fan_state.speed = SPEED_4
              /\ \A i \in 0..(NUM_TOTAL_RELAY - 1) : ~Energized(i)
        /\ g_Fan_state.on =>
              /\ g_Fan_state.speed = FormulaNextSpeed(last.state)
              /\ RelaysShow(relay_level, FormulaNextSpeed(last.state))
              /\ Energized(OSC_RELAY) <=> last.state.oscillate

\* the power button has turned on, at its stored speed 2 and oscillating, a
\* fan that was off
C34_Witness ==
    /\ Idle
    /\ last.event = ButtonPower
    /\ last.state = FanState(FALSE, TRUE, SPEED_2)
    /\ g_Fan_state = FanState(TRUE, TRUE, SPEED_2)
    /\ RelaysShow(relay_level, SPEED_2)


\* the last two commands handled were first and then second, back to back
BackToBack(first, second) ==
    /\ Idle
    /\ Len(trace) = 2
    /\ trace[1].event = first
    /\ trace[2].event = second

\* the relays show a fan running at the speed, oscillating or not as stored
RunsAt(relays, speed, oscillate) ==
    /\ RelaysShow(relays, speed)
    /\ (relays[OSC_RELAY] = GPIO_LOW) <=> oscillate

\* C35: the HomeKit commands Power(true) and Speed(v), v in 1..4, handled
\* back to back from a state with on false, end in either order with on
\* true, speed v, oscillate as before and the relay of v the one speed relay
\* energized; Power(false) and Speed(Off), handled back to back from a state
\* with on true, end in either order with on false, every relay
\* de-energized, speed and oscillate as before.
C35_EitherOrder ==
    /\ \A v \in SPEED_1..SPEED_4 :
          (/\ \/ BackToBack(HomeKitPower(1), HomeKitSpeed(v))
              \/ BackToBack(HomeKitSpeed(v), HomeKitPower(1))
           /\ ~trace[1].before.on) =>
              /\ trace[2].state = FanState(TRUE, trace[1].before.oscillate, v)
              /\ RunsAt(trace[2].relay, v, trace[1].before.oscillate)
    /\ (/\ \/ BackToBack(HomeKitPower(0), HomeKitSpeed(SPEED_OFF))
           \/ BackToBack(HomeKitSpeed(SPEED_OFF), HomeKitPower(0))
        /\ trace[1].before.on) =>
           /\ trace[2].state = [trace[1].before EXCEPT !.on = FALSE]
           /\ \A i \in 0..(NUM_TOTAL_RELAY - 1) : trace[2].relay[i] = GPIO_HIGH

\* Speed(2) and then Power(true) have been handled from an oscillating fan
\* that was off with speed 4 stored
C35_Witness ==
    /\ BackToBack(HomeKitSpeed(SPEED_2), HomeKitPower(1))
    /\ trace[1].before = FanState(FALSE, TRUE, SPEED_4)
    /\ g_Fan_state = FanState(TRUE, TRUE, SPEED_2)
    /\ RunsAt(relay_level, SPEED_2, TRUE)


\* C36: the decoder sends at most one event for a frame of 48 symbols: once
\* 11 symbols have matched a known code, the symbols after them send
\* nothing, copies of a known code included.
C36_OnePerFrame ==
    /\ Len(rx_log.events) <= 1
    /\ \A first \in KnownCodes, code \in KnownCodes :
          rx_log.symbols = Repeated(first, code) =>
              rx_log.events = <<is_command(first)>>
    /\ \A code \in KnownCodes :
          rx_log.symbols = Repeated(0, code) =>
              rx_log.events = <<is_command(code)>>

\* the frame was the speed code and then three copies of the power code;
\* the decoder sent the speed command alone
C36_Witness ==
    /\ rx_log.symbols = Repeated(IR_CODE_SPEED, IR_CODE_POWER)
    /\ rx_log.events = <<RemoteSpeed>>
    /\ g_Fan_event_queue # << >>


\* the observer has noted an edge
EdgeNoted == edges.id # -1

\* the edge the observer noted passed the test of the 250 ms
EdgePassed == edges.at - edges.before >= MIN_TIME_BETWEEN_PRESS

\* C37: prev_time_us is written exactly when an edge passes the test of the
\* 250 ms: an edge taken for a bounce leaves it as it was and yields no
\* event; an edge that passes sets it to the time of the edge, on a full
\* queue, where the event is dropped, as on a queue with room; no step but
\* an edge changes it.
C37_ClockOnPass ==
    /\ [] (EdgeNoted =>
             /\ ~EdgePassed => (edges.after = edges.before /\ ~edges.yielded)
             /\ EdgePassed => edges.after = edges.at
             /\ (EdgePassed /\ edges.full) => ~edges.yielded
             /\ (EdgePassed /\ ~edges.full) => edges.yielded)
    /\ [][prev_time_us' # prev_time_us =>
             (edges' # edges /\ prev_time_us' = edges'.after)]_vars

\* an oscillate edge has passed the test on a full queue: its event was
\* dropped and prev_time_us is the time of the edge
C37_Witness ==
    /\ EdgeNoted
    /\ edges.id = ID_OSCILLATE
    /\ EdgePassed
    /\ edges.full
    /\ ~edges.yielded
    /\ prev_time_us = edges.at
    /\ prev_time_us = time_us
    /\ Len(g_Fan_event_queue) = QUEUE_LENGTH


Buttons == {ID_POWER, ID_OSCILLATE}

\* C38: prev_time_us is one timestamp for both interrupts: the time of an
\* edge that yields an event is at least 250 ms after the time of every
\* earlier edge that yielded one, on the same button or on the other, and at
\* least 250 ms after Button_init.
C38_SharedClock ==
    /\ \A id \in Buttons :
          edges.yield[id] < 0 \/ edges.yield[id] >= MIN_TIME_BETWEEN_PRESS
    /\ \A id \in Buttons, other \in Buttons :
          (id # other /\ edges.yield[id] >= 0 /\ edges.yield[other] >= 0) =>
              \/ edges.yield[id] - edges.yield[other] >= MIN_TIME_BETWEEN_PRESS
              \/ edges.yield[other] - edges.yield[id] >= MIN_TIME_BETWEEN_PRESS
    /\ (edges.yielded /\ edges.since >= 0) =>
          edges.since >= MIN_TIME_BETWEEN_PRESS
    /\ edges.yielded =>
          /\ prev_time_us = edges.yield[edges.id]
          /\ \A other \in Buttons : edges.yield[other] <= edges.yield[edges.id]

\* an oscillate edge has yielded an event 250 ms to the microsecond after a
\* power edge that yielded one
C38_Witness ==
    /\ edges.id = ID_OSCILLATE
    /\ edges.yielded
    /\ edges.yield[ID_POWER] = MIN_TIME_BETWEEN_PRESS
    /\ edges.yield[ID_OSCILLATE] = MIN_TIME_BETWEEN_PRESS + MIN_TIME_BETWEEN_PRESS


\* a duration within the margin of a spec duration, the margin itself
\* counted in
Within(d, spec_duration) ==
    /\ d - spec_duration <= DURATION_ERROR_MARGIN
    /\ spec_duration - d <= DURATION_ERROR_MARGIN

\* a duration less than the margin away from a spec duration
Inside(d, spec_duration) ==
    /\ d - spec_duration < DURATION_ERROR_MARGIN
    /\ spec_duration - d < DURATION_ERROR_MARGIN

\* the frame the decoder was given is the power key's with the symbol at
\* position at replaced
Probed(at) ==
    /\ FullFrame
    /\ rx_log.symbols = Probe(at, rx_log.symbols[at])

\* the decoder took the symbol it was probed with for the bit of the code
Taken == rx_log.events = <<RemotePower>>

\* C39 (as first stated): a symbol is logic 0 exactly when its mark is
\* within 200 us of 1200 and its space within 200 us of 400, logic 1 exactly
\* when its mark is within 200 us of 400 and its space within 200 us of
\* 1200, 200 us itself counting as within.
C39_Original ==
    /\ Probed(ZeroAt) =>
          (Taken <=> /\ Within(rx_log.symbols[ZeroAt][1], DURATION_LONG)
                     /\ Within(rx_log.symbols[ZeroAt][2], DURATION_SHORT))
    /\ Probed(OneAt) =>
          (Taken <=> /\ Within(rx_log.symbols[OneAt][1], DURATION_SHORT)
                     /\ Within(rx_log.symbols[OneAt][2], DURATION_LONG))

\* C39 (amended): a symbol is logic 0 exactly when its mark is less than
\* 200 us away from 1200 and its space less than 200 us away from 400, logic
\* 1 exactly when its mark is less than 200 us away from 400 and its space
\* less than 200 us away from 1200, and neither otherwise: a duration
\* exactly 200 us away is out of range; no symbol is both.
C39_StrictMargin ==
    /\ Probed(ZeroAt) =>
          (Taken <=> /\ Inside(rx_log.symbols[ZeroAt][1], DURATION_LONG)
                     /\ Inside(rx_log.symbols[ZeroAt][2], DURATION_SHORT))
    /\ Probed(OneAt) =>
          (Taken <=> /\ Inside(rx_log.symbols[OneAt][1], DURATION_SHORT)
                     /\ Inside(rx_log.symbols[OneAt][2], DURATION_LONG))
    /\ \A at \in {ZeroAt, OneAt} :
          Probed(at) => ~(/\ parse_logic0(rx_log.symbols[at])
                          /\ parse_logic1(rx_log.symbols[at]))

\* the frame had a mark exactly 200 us short of the long duration where
\* the power code has a 0, and the decoder sent nothing
C39_Witness ==
    /\ Probed(ZeroAt)
    /\ rx_log.symbols[ZeroAt] =
           <<DURATION_LONG - DURATION_ERROR_MARGIN, DURATION_SHORT>>
    /\ rx_log.events = << >>


\* the level of a rotation speed as the claim lists the bins
ListedBin(v) ==
    IF v = 0 THEN SPEED_OFF
    ELSE IF v \in 1..25 THEN SPEED_1
    ELSE IF v \in 26..50 THEN SPEED_2
    ELSE IF v \in 51..75 THEN SPEED_3
    ELSE SPEED_4

\* the last write was a write of the rotation speed
SpeedWritten ==
    /\ hk_log.writes # << >>
    /\ hk_log.writes[1].uuid = HAP_CHAR_UUID_ROTATION_SPEED

\* the last write was a write of the rotation speed last published
WrittenBack ==
    /\ SpeedWritten
    /\ last.publish # << >>
    /\ hk_log.writes[1].val = last.publish[1].speed

\* C40: HomeKit_update_char publishes 25 * L for the stored speed L, a value
\* in 0..100; the callback bins a rotation speed of 0 to SPEED_OFF, 1..25
\* to 1, 26..50 to 2, 51..75 to 3 and anything above 75 to 4; so a write of
\* the value published for L is binned to L.
C40_RoundTrip ==
    /\ last.publish # << >> =>
          /\ last.publish[1].speed = 25 * g_Fan_state.speed
          /\ last.publish[1].speed \in 0..100
          /\ SpeedBin(last.publish[1].speed) = g_Fan_state.speed
    /\ SpeedWritten =>
          hk_log.events = <<HomeKitSpeed(ListedBin(hk_log.writes[1].val))>>
    /\ WrittenBack =>
          hk_log.events = <<HomeKitSpeed(g_Fan_state.speed)>>

\* the remote has brought the fan to speed 3, 75 was published, and HomeKit
\* has written 75 back: the speed command queued is for speed 3
C40_Witness ==
    /\ WrittenBack
    /\ last.event = RemoteSpeed
    /\ g_Fan_state = FanState(TRUE, FALSE, SPEED_3)
    /\ hk_log.writes = <<Write(HAP_CHAR_UUID_ROTATION_SPEED, 75)>>
    /\ hk_log.events = <<HomeKitSpeed(SPEED_3)>>
    /\ g_Fan_event_queue = <<HomeKitSpeed(SPEED_3)>>

=============================================================================
